---- MODULE Spec2Model ----
(***************************************************************************)
(* A model of parts of the arti Tor client:                                *)
(*   - tor-guardmgr/src/pending.rs : GuardUsable, GuardMonitor,            *)
(*     PendingRequest and the one-shot channels between them;              *)
(*   - tor-cert/src/lib.rs : the Ed25519 certificate codec and its         *)
(*     type-state pipeline.                                                *)
(***************************************************************************)
EXTENDS Integers, Sequences, FiniteSets, TLC

\* ------------------------------------------------------------------------
\* Bounds of the model
\* ------------------------------------------------------------------------
MaxReq == 2
MaxOps == 5
NGuards == 3

\* ------------------------------------------------------------------------
\* Option<T>: None is the empty sequence, Some(v) the one-element sequence
\* ------------------------------------------------------------------------
None == << >>
Some(v) == << v >>
IsSome(o) == o # << >>
Unwrap(o) == o[1]

VARIABLES
    NEXT_VAL,      \* RequestId::next's static counter
    usable,        \* usable[r]   : Option<GuardUsable>, the caller's future
    vchan,         \* vchan[r]    : the oneshot::channel<bool> of request r
    pending,       \* pending[r]  : Option<PendingRequest>, the manager's record
    monitor,       \* monitor[r]  : Option<GuardMonitor>, the caller's handle
    schan,         \* schan[r]    : the oneshot::channel<daemon::Msg> of request r
    panicked,      \* a panic has unwound the calling task
    now,           \* the manager's clock (Instant)
    reach,         \* reach[g]    : what the manager knows of guard g
    \* observations of the calls made so far
    firstReply,    \* firstReply[r] : Option<[arg, rxGone]>, the first reply() call
    nReplies,      \* nReplies[r] : the number of reply() calls
    vsends,        \* vsends[r]   : the values handed to Sender<bool>::send
    ssends,        \* ssends[r]   : the messages handed to Sender<Msg>::send
    monEnd,        \* monEnd[r]   : Option<how the monitor was consumed>
    lastPoll,      \* lastPoll[r] : Option<[out, senderGone]>, the last poll of r
    kind,          \* kind[r]     : "none", "primary" or "uncertain", as created
    nOps,          \* the number of calls made on the verdict side
    handled,       \* handled[r]  : Option<[status, at, guard]>, the report the manager processed
    \* tor-cert
    stage,         \* what the caller holds: "bytes", one of the four certificate
                   \* types, or "Err"
    wire,          \* the bytes given to decode or returned by encode_and_sign
    wireSpec,      \* Option<the fields the peer built wire from>
    theCert,       \* Option<Ed25519Cert>, the certificate inside what the caller holds
    certText,      \* UncheckedCert::text
    certSig,       \* UncheckedCert::signature
    certErr,       \* the error returned, when stage is "Err"
    steps,         \* the operations applied since the bytes
    obs,           \* Option<the arguments and result of the last query>
    orig           \* Option<[cert, skey]>: what encode_and_sign was applied to

guardVars == << NEXT_VAL, usable, vchan, pending, monitor, schan, panicked, now,
                reach, firstReply, nReplies, vsends, ssends, monEnd, lastPoll, kind, nOps, handled >>

certVars == << stage, wire, wireSpec, theCert, certText, certSig, certErr, steps, obs, orig >>

VARIABLES
    \* tor-proto: the VERSIONS cell
    versions,      \* Versions::versions, the list in the peer's cell
    my_protos,     \* the caller's list of link protocols
    shared,        \* Option<the Option<u16> best_shared_link_protocol returned>
    cellBytes,     \* Option<the bytes encode_for_handshake returned>
    reread         \* Option<the list Versions::take_from read back from the body>

versionsVars == << versions, my_protos, shared, cellBytes, reread >>

VARIABLES
    \* the channel handshake
    chanState,     \* "Initial", "VersionsSent", "VersionsReceived", "CertsReceived",
                   \* "NetinfoReceived", "Open" or "Closed"
    chanErr,       \* the error the channel closed with, or ""
    linkProto,     \* Option<the negotiated link protocol>
    sent,          \* the cells sent to the peer, in order
    rcvd           \* the cells received from the peer, in order

chanVars == << chanState, chanErr, linkProto, sent, rcvd >>

VARIABLES
    \* the microdescriptor reader
    mdToks,        \* the document: its items, in order
    annotated,     \* MicrodescReader::annotated
    mdPos,         \* how many items of the document the reader has consumed
    mdResults,     \* what next() has returned so far, one record per Some
    mdDone         \* next() has returned None

mdVars == << mdToks, annotated, mdPos, mdResults, mdDone >>

VARIABLES
    \* a CERTS cell body written and read back
    certsStage,    \* "Idle", "Built", "Written" or "Read"
    certsMsg,      \* the Certs message in hand
    certsBody,     \* what write_body_onto wrote
    certsRead      \* what Certs::take_from made of certsBody

certsVars == << certsStage, certsMsg, certsBody, certsRead >>

VARIABLES
    \* RequestId::next called from several threads
    next_val,      \* the AtomicU64 NEXT_VAL, as four 16-bit limbs, high first
    idStart,       \* NEXT_VAL when the run starts: every id below it is in use
    idPc,          \* per thread: "idle", "fetched" or "panicked"
    idGot,         \* per thread: what its fetch_add returned
    idFetches,     \* what the fetch_adds returned, in the order they happened
    idOut          \* the ids next() has returned, in the order it returned them

idVars == << next_val, idStart, idPc, idGot, idFetches, idOut >>

VARIABLES
    \* ArtiPath::new and ArtiPathComponent::new on one string
    pathIn,        \* the string, as its characters
    pathRes,       \* what ArtiPath::new returned, once called
    compRes        \* what ArtiPathComponent::new returned, once called

pathVars == << pathIn, pathRes, compRes >>

VARIABLES
    \* a DownloadScheduleBuilder and what it built
    dlBld,         \* the builder: attempts, initial_delay (ms), parallelism
    dlBuilt        \* the last result of a build method, with the method's name

retryVars == << dlBld, dlBuilt >>

VARIABLES
    \* the rate-limited logger: the global runtime and one RateLim
    RUNTIME_SUPPORT,   \* the OnceCell: None or Some(runtime)
    instPc,            \* per thread in install_runtime: "idle" or "boxed"
    instRt,            \* per thread: the runtime it is installing
    installLog,        \* the calls of install_runtime, in the order of their set
    loggable,          \* Inner::loggable: the events applied and not yet flushed
    task_running,      \* Inner::task_running
    runTasks,          \* the run tasks spawned and not exited, each at its sleep
    spawnFailed        \* how many times rt.spawn has failed

ratelimVars == << RUNTIME_SUPPORT, instPc, instRt, installLog, loggable, task_running,
                  runTasks, spawnFailed >>

VARIABLES
    \* a guard sample drawn from a network directory
    netdir,        \* the NetDir: its relays
    guardFilter,   \* the GuardFilter: the relays it permits
    guardParams,   \* the GuardParams
    sampleGuards,  \* the guard sample, a ByRelayIds: its entries' identities
    lastSample     \* the last call of Universe::sample: its arguments and result

sampleVars == << netdir, guardFilter, guardParams, sampleGuards, lastSample >>

vars == << guardVars, certVars, versionsVars, chanVars, mdVars, certsVars, idVars, pathVars, retryVars, ratelimVars, sampleVars >>

\* What the actions of one part leave alone: the variables of the others.
nonGuardVars == << certVars, versionsVars, chanVars, mdVars, certsVars, idVars, pathVars, retryVars, ratelimVars, sampleVars >>
nonCertVars == << guardVars, versionsVars, chanVars, mdVars, certsVars, idVars, pathVars, retryVars, ratelimVars, sampleVars >>
nonVersionsVars == << guardVars, certVars, chanVars, mdVars, certsVars, idVars, pathVars, retryVars, ratelimVars, sampleVars >>
nonChanVars == << guardVars, certVars, versionsVars, mdVars, certsVars, idVars, pathVars, retryVars, ratelimVars, sampleVars >>
nonMdVars == << guardVars, certVars, versionsVars, chanVars, certsVars, idVars, pathVars, retryVars, ratelimVars, sampleVars >>
nonCertsVars == << guardVars, certVars, versionsVars, chanVars, mdVars, idVars, pathVars, retryVars, ratelimVars, sampleVars >>
nonIdVars == << guardVars, certVars, versionsVars, chanVars, mdVars, certsVars, pathVars, retryVars, ratelimVars, sampleVars >>
nonPathVars == << guardVars, certVars, versionsVars, chanVars, mdVars, certsVars, idVars, retryVars, ratelimVars, sampleVars >>
nonRetryVars == << guardVars, certVars, versionsVars, chanVars, mdVars, certsVars, idVars, pathVars, ratelimVars, sampleVars >>
nonRatelimVars == << guardVars, certVars, versionsVars, chanVars, mdVars, certsVars, idVars, pathVars, retryVars, sampleVars >>
nonSampleVars == << guardVars, certVars, versionsVars, chanVars, mdVars, certsVars, idVars, pathVars, retryVars, ratelimVars >>

RequestIds == 1..MaxReq
Guards == 1..NGuards
\* Guards are numbered in priority order, guard 1 first.
\* GuardUsage: an optional restriction, the one guard to avoid.
GuardUsages == {None} \cup {Some(g) : g \in Guards}

\* ------------------------------------------------------------------------
\* futures::channel::oneshot, as pending.rs uses it
\* ------------------------------------------------------------------------
\* Inner<T>: the slot and the flag either side sets when it goes away.
oneshot_channel == [data |-> None, complete |-> FALSE]

\* Sender::send(self, v): Err(v) when the receiver is gone; the sender is
\* consumed either way.
Sender_send(ch, v) ==
    IF ch.complete
    THEN [ch |-> ch, res |-> "Err"]
    ELSE [ch |-> [data |-> Some(v), complete |-> TRUE], res |-> "Ok"]

\* Drop for Sender / Receiver.
Sender_drop(ch) == [ch EXCEPT !.complete = TRUE]
Receiver_drop(ch) == [data |-> None, complete |-> TRUE]

\* Receiver::poll: Pending until the channel is complete; then the value, taken
\* out of the slot, or Canceled when there is none.
Receiver_poll(ch) ==
    IF ch.complete
    THEN [ch |-> [ch EXCEPT !.data = None], ready |-> TRUE, val |-> ch.data]
    ELSE [ch |-> ch, ready |-> FALSE, val |-> None]

\* Poll<Result<bool, Canceled>> as a string.
PollOutput(p) ==
    IF ~p.ready THEN "Pending"
    ELSE IF IsSome(p.val) THEN (IF Unwrap(p.val) THEN "Ok(true)" ELSE "Ok(false)")
    ELSE "Err(Canceled)"

\* ------------------------------------------------------------------------
\* GuardUsable
\* ------------------------------------------------------------------------
GuardUsable_new_primary == [u |-> None]

GuardUsable_new_uncertain == [usable |-> [u |-> Some("rcv")], ch |-> oneshot_channel]

\* poll of the Option<Receiver>, without the None arm
GuardUsable_poll_NoPrimaryArm(self, ch) ==
    [ch |-> Receiver_poll(ch).ch, out |-> PollOutput(Receiver_poll(ch))]

\* <GuardUsable as Future>::poll
GuardUsable_poll(self, ch) ==
    IF self.u = None
    THEN [ch |-> ch, out |-> "Ok(true)"]
    ELSE [ch |-> Receiver_poll(ch).ch, out |-> PollOutput(Receiver_poll(ch))]

\* ------------------------------------------------------------------------
\* PendingRequest
\* ------------------------------------------------------------------------
PendingRequest_new(guard_id, usage, snd, started_at) ==
    [guard_id |-> guard_id, usage |-> usage, usable |-> snd,
     started_at |-> started_at, waiting_since |-> None]

\* reply() that keeps its sender and sends on every call
PendingRequest_reply_NoTake(self, ch, b) ==
    IF IsSome(self.usable)
    THEN [self |-> self,
          ch |-> IF ch.complete THEN ch ELSE [data |-> Some(b), complete |-> FALSE],
          sent |-> << b >>, panic |-> FALSE]
    ELSE [self |-> self, ch |-> ch, sent |-> << >>, panic |-> FALSE]

\* reply() that unwraps the result of send
PendingRequest_reply_Unwrap(self, ch, b) ==
    IF IsSome(self.usable)
    THEN LET s == Sender_send(ch, b)
         IN  IF s.res = "Err"
             THEN [self |-> self, ch |-> ch, sent |-> << b >>, panic |-> TRUE]
             ELSE [self |-> [self EXCEPT !.usable = None],
                   ch |-> s.ch, sent |-> << b >>, panic |-> FALSE]
    ELSE [self |-> self, ch |-> ch, sent |-> << >>, panic |-> FALSE]

\* PendingRequest::reply: take the sender if there is one, send, ignore the
\* result.
PendingRequest_reply(self, ch, b) ==
    IF IsSome(self.usable)
    THEN [self |-> [self EXCEPT !.usable = None],
          ch |-> Sender_send(ch, b).ch,
          sent |-> << b >>, panic |-> FALSE]
    ELSE [self |-> self, ch |-> ch, sent |-> << >>, panic |-> FALSE]

\* mark_waiting() that leaves waiting_since alone
PendingRequest_mark_waiting_Noop(self, t) == self

\* PendingRequest::mark_waiting
PendingRequest_mark_waiting(self, t) == [self EXCEPT !.waiting_since = Some(t)]

\* Drop of a PendingRequest drops the sender it still holds.
PendingRequest_drop(self, ch) == IF IsSome(self.usable) THEN Sender_drop(ch) ELSE ch

\* ------------------------------------------------------------------------
\* GuardMonitor
\* ------------------------------------------------------------------------
GuardMonitor_new(id) == [mon |-> [id |-> id, snd |-> Some("snd")], ch |-> oneshot_channel]

Status(id, msg) == [id |-> id, status |-> msg]

\* a Drop that sends without looking at snd
GuardMonitor_drop_Always(self, ch) ==
    [self |-> [self EXCEPT !.snd = None],
     ch |-> Sender_send(ch, Status(self.id, "AttemptAbandoned")).ch,
     sent |-> << Status(self.id, "AttemptAbandoned") >>]

\* impl Drop for GuardMonitor
GuardMonitor_drop(self, ch) ==
    IF IsSome(self.snd)
    THEN [self |-> [self EXCEPT !.snd = None],
          ch |-> Sender_send(ch, Status(self.id, "AttemptAbandoned")).ch,
          sent |-> << Status(self.id, "AttemptAbandoned") >>]
    ELSE [self |-> self, ch |-> ch, sent |-> << >>]

\* The body of succeeded() / failed(): take the sender (expect), send, and the
\* drop of self at the end of the function.
GuardMonitor_report(self, ch, msg) ==
    IF IsSome(self.snd)
    THEN LET taken == [self EXCEPT !.snd = None]
             sch == Sender_send(ch, Status(self.id, msg)).ch
             d == GuardMonitor_drop(taken, sch)
         IN  [ch |-> d.ch, sent |-> << Status(self.id, msg) >> \o d.sent, panic |-> FALSE]
    ELSE [ch |-> ch, sent |-> << >>, panic |-> TRUE]

GuardMonitor_succeeded(self, ch) == GuardMonitor_report(self, ch, "Success")

GuardMonitor_failed(self, ch) == GuardMonitor_report(self, ch, "Failure")

GuardMonitor_attempt_abandoned(self, ch) ==
    LET d == GuardMonitor_drop(self, ch)
    IN  [ch |-> d.ch, sent |-> d.sent, panic |-> FALSE]

\* ========================================================================
\* tor-cert: Ed25519 certificates
\* ========================================================================
\* caret_int! values
IDENTITY_V_SIGNING == 4
SIGNING_V_TLS_CERT == 5
SIGNED_WITH_ED25519_KEY == 4
ED25519_KEY == 1
SHA256_OF_RSA == 2
SHA256_OF_X509 == 3
\* The length of a key or digest body, [u8; 32], and of an Ed25519 signature.
KeyLen == 32
SigLen == 64

\* ------------------------------------------------------------------------
\* Ed25519, as the codec consumes it
\* ------------------------------------------------------------------------
\* Two keypairs; the public key of keypair k is KeyLen bytes of k.
Keys == {1, 2}
KeyBytes(k) == [i \in 1..KeyLen |-> k]
\* PublicKey::from_bytes accepts the encodings of points only.
IsValidKey(b) == \E k \in Keys : b = KeyBytes(k)
KeyOf(b) == CHOOSE k \in Keys : b = KeyBytes(k)

RECURSIVE DigestRange(_, _, _)
\* A digest of text[lo..hi] that depends on every byte and on its place.
DigestRange(text, lo, hi) ==
    IF lo > hi THEN 7
    ELSE IF lo = hi THEN (31 * text[lo] + lo) % 251
    ELSE LET mid == (lo + hi) \div 2
         IN  (31 * DigestRange(text, lo, mid) + DigestRange(text, mid + 1, hi)) % 251

\* Keypair::sign: SigLen bytes bound to the key and to the text.
Sign(k, text) ==
    [i \in 1..SigLen |-> IF i = 1 THEN k
                         ELSE IF i = 2 THEN DigestRange(text, 1, Len(text))
                         ELSE IF i = 3 THEN Len(text) % 256
                         ELSE 0]
\* PublicKey::verify
Verify(pk, text, sig) == IsValidKey(pk) /\ sig = Sign(KeyOf(pk), text)

\* ------------------------------------------------------------------------
\* tor_bytes::Writer and tor_bytes::Reader
\* ------------------------------------------------------------------------
write_u8(x) == << x % 256 >>
write_u16(x) == << (x \div 256) % 256, x % 256 >>
write_u32(x) == << (x \div 16777216) % 256, (x \div 65536) % 256, (x \div 256) % 256, x % 256 >>

\* A Reader over cert is the count off of the bytes it has consumed.
Reader_remaining(b, off) == Len(b) - off

\* take(n) fails with Truncated when fewer than n bytes remain
Reader_truncated(b, off, n) == Reader_remaining(b, off) < n

\* take(n): the next n bytes
Reader_take(b, off, n) == SubSeq(b, off + 1, off + n)

\* take_u8 / take_u16 / take_u32: big-endian integers
Reader_take_u8(b, off) == b[off + 1]
Reader_take_u16(b, off) == b[off + 1] * 256 + b[off + 2]
Reader_take_u32(b, off) ==
    b[off + 1] * 16777216 + b[off + 2] * 65536 + b[off + 3] * 256 + b[off + 4]

\* a reader that takes trailing bytes for the end of the input
Reader_should_be_exhausted_Always(b, off) == TRUE

Reader_should_be_exhausted(b, off) == Reader_remaining(b, off) = 0

\* ------------------------------------------------------------------------
\* CertifiedKey
\* ------------------------------------------------------------------------
CertifiedKey_get_key_type(ck) ==
    CASE ck.variant = "Ed25519" -> ED25519_KEY
      [] ck.variant = "RSASha256Digest" -> SHA256_OF_RSA
      [] ck.variant = "X509Sha256Digest" -> SHA256_OF_X509
      [] OTHER -> ck.key_type

CertifiedKey_as_bytes(ck) == ck.bytes

\* from_reader: the body is KeyLen bytes; an Ed25519 body must be a key.
CertifiedKey_from_reader(key_type, b, off) ==
    IF Reader_truncated(b, off, KeyLen)
    THEN [ok |-> FALSE, err |-> "Truncated", val |-> << >>]
    ELSE IF key_type = ED25519_KEY /\ ~IsValidKey(Reader_take(b, off, KeyLen))
    THEN [ok |-> FALSE, err |-> "BadMessage", val |-> << >>]
    ELSE [ok |-> TRUE, err |-> "",
          val |-> << [variant |-> CASE key_type = ED25519_KEY -> "Ed25519"
                                    [] key_type = SHA256_OF_RSA -> "RSASha256Digest"
                                    [] key_type = SHA256_OF_X509 -> "X509Sha256Digest"
                                    [] OTHER -> "Unrecognized",
                      key_type |-> IF key_type \in {ED25519_KEY, SHA256_OF_RSA, SHA256_OF_X509}
                                   THEN 0 ELSE key_type,
                      bytes |-> Reader_take(b, off, KeyLen)] >>]

\* ------------------------------------------------------------------------
\* CertExt
\* ------------------------------------------------------------------------
SignedWithEd25519(pk) ==
    [variant |-> "SignedWithEd25519", pk |-> pk,
     affects_validation |-> FALSE, ext_type |-> SIGNED_WITH_ED25519_KEY, body |-> << >>]

UnrecognizedExt(affects_validation, ext_type, body) ==
    [variant |-> "Unrecognized", pk |-> << >>,
     affects_validation |-> affects_validation, ext_type |-> ext_type, body |-> body]

CertExt_get_ext_id(e) ==
    IF e.variant = "SignedWithEd25519" THEN SIGNED_WITH_ED25519_KEY ELSE e.ext_type

\* Writeable for CertExt: body_len:u16 | ext_type:u8 | flags:u8 | body
CertExt_write_onto(e) ==
    IF e.variant = "SignedWithEd25519"
    THEN write_u16(32) \o write_u8(SIGNED_WITH_ED25519_KEY) \o write_u8(0) \o e.pk
    ELSE write_u16(Len(e.body)) \o write_u8(e.ext_type)
           \o write_u8(IF e.affects_validation THEN 1 ELSE 0) \o e.body

\* take_from that lets an unrecognized extension through whatever its flags
CertExt_take_from_IgnoreFlag(b, off) ==
    IF Reader_truncated(b, off, 4)
    THEN [ok |-> FALSE, err |-> "Truncated", val |-> << >>, off |-> off]
    ELSE IF Reader_truncated(b, off + 4, Reader_take_u16(b, off))
    THEN [ok |-> FALSE, err |-> "Truncated", val |-> << >>, off |-> off]
    ELSE IF Reader_take_u8(b, off + 2) = SIGNED_WITH_ED25519_KEY
    THEN IF Reader_take_u16(b, off) # 32
              \/ ~IsValidKey(Reader_take(b, off + 4, Reader_take_u16(b, off)))
         THEN [ok |-> FALSE, err |-> "BadMessage", val |-> << >>, off |-> off]
         ELSE [ok |-> TRUE, err |-> "",
               val |-> << SignedWithEd25519(Reader_take(b, off + 4, 32)) >>,
               off |-> off + 4 + 32]
    ELSE [ok |-> TRUE, err |-> "",
          val |-> << UnrecognizedExt(Reader_take_u8(b, off + 3) % 2 = 1,
                                     Reader_take_u8(b, off + 2),
                                     Reader_take(b, off + 4, Reader_take_u16(b, off))) >>,
          off |-> off + 4 + Reader_take_u16(b, off)]

\* Readable for CertExt: len:u16, ext_type:u8, flags:u8, then len bytes of
\* body. Any of the four that runs past the end is Truncated.
CertExt_take_from(b, off) ==
    IF Reader_truncated(b, off, 4)
    THEN [ok |-> FALSE, err |-> "Truncated", val |-> << >>, off |-> off]
    ELSE IF Reader_truncated(b, off + 4, Reader_take_u16(b, off))
    THEN [ok |-> FALSE, err |-> "Truncated", val |-> << >>, off |-> off]
    ELSE IF Reader_take_u8(b, off + 2) = SIGNED_WITH_ED25519_KEY
    THEN IF Reader_take_u16(b, off) # 32
              \/ ~IsValidKey(Reader_take(b, off + 4, Reader_take_u16(b, off)))
         THEN [ok |-> FALSE, err |-> "BadMessage", val |-> << >>, off |-> off]
         ELSE [ok |-> TRUE, err |-> "",
               val |-> << SignedWithEd25519(Reader_take(b, off + 4, 32)) >>,
               off |-> off + 4 + 32]
    ELSE IF Reader_take_u8(b, off + 3) % 2 # 0
    THEN [ok |-> FALSE, err |-> "BadMessage", val |-> << >>, off |-> off]
    ELSE [ok |-> TRUE, err |-> "",
          val |-> << UnrecognizedExt(FALSE, Reader_take_u8(b, off + 2),
                                     Reader_take(b, off + 4, Reader_take_u16(b, off))) >>,
          off |-> off + 4 + Reader_take_u16(b, off)]

RECURSIVE take_extensions(_, _, _, _)
\* for _ in 0..n_exts { extensions.push(r.extract()?) }
take_extensions(b, off, n, acc) ==
    IF n = 0 THEN [ok |-> TRUE, err |-> "", val |-> acc, off |-> off]
    ELSE IF ~CertExt_take_from(b, off).ok
    THEN [ok |-> FALSE, err |-> CertExt_take_from(b, off).err, val |-> << >>, off |-> off]
    ELSE take_extensions(b, CertExt_take_from(b, off).off, n - 1,
                         acc \o CertExt_take_from(b, off).val)

\* ------------------------------------------------------------------------
\* Ed25519Cert
\* ------------------------------------------------------------------------
RECURSIVE write_extensions(_)
write_extensions(exts) ==
    IF exts = << >> THEN << >>
    ELSE CertExt_write_onto(Head(exts)) \o write_extensions(Tail(exts))

\* encode_and_sign: the header, the extensions, then the signature over them.
Ed25519Cert_encode_and_sign(self, skey) ==
    LET w == write_u8(1) \o write_u8(self.cert_type) \o write_u32(self.exp_hours)
               \o write_u8(CertifiedKey_get_key_type(self.cert_key))
               \o CertifiedKey_as_bytes(self.cert_key)
               \o write_extensions(self.extensions)
    IN  w \o Sign(skey, w)

\* extensions.iter().find(|e| e.get_ext_id() == SIGNED_WITH_ED25519_KEY)
included_pkey(extensions) ==
    LET idx == {i \in 1..Len(extensions) :
                   CertExt_get_ext_id(extensions[i]) = SIGNED_WITH_ED25519_KEY}
    IN  IF idx = {} THEN None
        ELSE LET e == extensions[CHOOSE i \in idx : \A j \in idx : i <= j]
             IN  IF e.variant = "SignedWithEd25519" THEN Some(e.pk) ELSE None

\* a decoder that takes every version for version 1
UnrecognizedVersion_Never(v) == FALSE

\* if v != 1 { return Err(Error::BadMessage("Unrecognized certificate version")) }
UnrecognizedVersion(v) == v # 1

\* the key type taken as the certificate declares it
decode_cert_key_type_AsDeclared(cert_type, key_type) == key_type

\* decode: the key type a certificate's key is read with
decode_cert_key_type(cert_type, key_type) ==
    IF cert_type = SIGNING_V_TLS_CERT /\ key_type = ED25519_KEY
    THEN SHA256_OF_X509 ELSE key_type

\* Ed25519Cert::decode: Ok(KeyUnknownCert) or Err. The fields up to n_exts
\* have fixed sizes: version at 0, cert_type at 1, exp_hours at 2, the key
\* type at 6, the key body at 7 and n_exts at 7 + KeyLen.
Ed25519Cert_decode(cert) ==
    LET cert_type == Reader_take_u8(cert, 1)
        exp_hours == Reader_take_u32(cert, 2)
        cert_key_type == decode_cert_key_type(cert_type, Reader_take_u8(cert, 6))
        cert_key == CertifiedKey_from_reader(cert_key_type, cert, 7)
        n_exts == Reader_take_u8(cert, 7 + KeyLen)
        extensions == take_extensions(cert, 8 + KeyLen, n_exts, << >>)
        sig_offset == extensions.off
        bad(e) == [ok |-> FALSE, err |-> e, cert |-> None, text |-> << >>,
                   signature |-> << >>]
    IN  IF Reader_truncated(cert, 0, 1) THEN bad("Truncated")
        ELSE IF UnrecognizedVersion(Reader_take_u8(cert, 0)) THEN bad("BadMessage")
        ELSE IF Reader_truncated(cert, 1, 1) THEN bad("Truncated")
        ELSE IF Reader_truncated(cert, 2, 4) THEN bad("Truncated")
        ELSE IF Reader_truncated(cert, 6, 1) THEN bad("Truncated")
        ELSE IF ~cert_key.ok THEN bad(cert_key.err)
        ELSE IF Reader_truncated(cert, 7 + KeyLen, 1) THEN bad("Truncated")
        ELSE IF ~extensions.ok THEN bad(extensions.err)
        ELSE IF Reader_truncated(cert, sig_offset, SigLen) THEN bad("Truncated")
        ELSE IF ~Reader_should_be_exhausted(cert, sig_offset + SigLen)
        THEN bad("ExtraneousBytes")
        ELSE [ok |-> TRUE, err |-> "",
              cert |-> Some([exp_hours |-> exp_hours,
                             cert_type |-> cert_type,
                             cert_key |-> Unwrap(cert_key.val),
                             extensions |-> extensions.val,
                             signed_with |-> included_pkey(extensions.val)]),
              text |-> Reader_take(cert, 0, sig_offset),
              signature |-> Reader_take(cert, sig_offset, SigLen)]

\* get_expiry: seconds after the epoch
Ed25519Cert_get_expiry(self) == self.exp_hours * 3600

Ed25519Cert_is_expired_at(self, when) == when >= Ed25519Cert_get_expiry(self)

\* check_key that prefers the caller's key without comparing
KeyUnknownCert_check_key_NoCompare(signed_with, pkey) ==
    IF IsSome(pkey) THEN [ok |-> TRUE, err |-> "", real_key |-> pkey]
    ELSE IF IsSome(signed_with) THEN [ok |-> TRUE, err |-> "", real_key |-> signed_with]
    ELSE [ok |-> FALSE, err |-> "BadMessage", real_key |-> None]

\* KeyUnknownCert::check_key: the key to check the signature with
KeyUnknownCert_check_key(signed_with, pkey) ==
    IF IsSome(pkey) /\ IsSome(signed_with)
    THEN IF pkey = signed_with
         THEN [ok |-> TRUE, err |-> "", real_key |-> signed_with]
         ELSE [ok |-> FALSE, err |-> "BadMessage", real_key |-> None]
    ELSE IF IsSome(pkey) THEN [ok |-> TRUE, err |-> "", real_key |-> pkey]
    ELSE IF IsSome(signed_with) THEN [ok |-> TRUE, err |-> "", real_key |-> signed_with]
    ELSE [ok |-> FALSE, err |-> "BadMessage", real_key |-> None]

\* UncheckedCert::is_well_signed
UncheckedCert_is_well_signed(signed_with, text, signature) ==
    Verify(Unwrap(signed_with), text, signature)

\* is_valid_at that lets the instant of expiry through
SigCheckedCert_is_valid_at_Late(self, t) ==
    IF t > Ed25519Cert_get_expiry(self)
    THEN [ok |-> FALSE, expired_by |-> t - Ed25519Cert_get_expiry(self)]
    ELSE [ok |-> TRUE, expired_by |-> 0]

\* SigCheckedCert::is_valid_at: Ok(()) or Err(Expired(t - expiry))
SigCheckedCert_is_valid_at(self, t) ==
    IF t >= Ed25519Cert_get_expiry(self)
    THEN [ok |-> FALSE, expired_by |-> t - Ed25519Cert_get_expiry(self)]
    ELSE [ok |-> TRUE, expired_by |-> 0]

\* ------------------------------------------------------------------------
\* Certificates on the wire, as a peer builds them
\* ------------------------------------------------------------------------
MaxExts == 2

CertTypeSet == {IDENTITY_V_SIGNING, SIGNING_V_TLS_CERT}
ExpHoursSet == {1, 300}
KeyTypeSet == {ED25519_KEY, SHA256_OF_X509, 8}
\* Extensions on the wire: the signing key of either keypair, and an extension
\* of an unknown type with flags 0 or 1.
ExtSpecSet ==
    {[ext_type |-> SIGNED_WITH_ED25519_KEY, flags |-> 0, body |-> KeyBytes(k)] : k \in Keys}
    \cup {[ext_type |-> 7, flags |-> f, body |-> << 5, 6 >>] : f \in {0, 1}}
\* Who signed: a keypair, or 0 for a signature that is not one.
SignerSet == Keys \cup {0}
\* What is wrong with the bytes: nothing; a version byte of 2; a byte after
\* the signature; a signature one byte short; an extension count one too
\* many; the input ending inside the key body; the last extension declaring
\* a body longer than what follows.
DamageSet == {"none", "version", "trailing", "truncated", "ext_count", "key_body", "ext_body"}

SeqsUpTo(S, n) == UNION {[1..m -> S] : m \in 0..n}

WireSpecs ==
    [cert_type : CertTypeSet, exp_hours : ExpHoursSet, key_type : KeyTypeSet,
     exts : SeqsUpTo(ExtSpecSet, MaxExts), signer : SignerSet, damage : DamageSet]

RECURSIVE ext_wire(_)
ext_wire(exts) ==
    IF exts = << >> THEN << >>
    ELSE write_u16(Len(Head(exts).body)) \o << Head(exts).ext_type, Head(exts).flags >>
           \o Head(exts).body \o ext_wire(Tail(exts))

\* The extensions, the last one declaring 200 bytes more than its body has.
ext_wire_overrun(exts) ==
    IF exts = << >> THEN << >>
    ELSE LET last == exts[Len(exts)]
         IN  ext_wire(SubSeq(exts, 1, Len(exts) - 1))
               \o write_u16(Len(last.body) + 200) \o << last.ext_type, last.flags >>
               \o last.body

\* version:u8 | type:u8 | exp_hours:u32 | key_type:u8 | key_body:32 | n_exts:u8
\* | extensions | signature:64
BuildWire(ws) ==
    LET signed == << (IF ws.damage = "version" THEN 2 ELSE 1), ws.cert_type >>
                    \o write_u32(ws.exp_hours) \o << ws.key_type >> \o KeyBytes(1)
                    \o << Len(ws.exts) + (IF ws.damage = "ext_count" THEN 1 ELSE 0) >>
                    \o (IF ws.damage = "ext_body" THEN ext_wire_overrun(ws.exts)
                        ELSE ext_wire(ws.exts))
        sig == IF ws.signer \in Keys THEN Sign(ws.signer, signed)
               ELSE [i \in 1..SigLen |-> 0]
        full == signed \o sig
    IN  CASE ws.damage = "trailing" -> full \o << 0 >>
          [] ws.damage = "truncated" -> SubSeq(full, 1, Len(full) - 1)
          [] ws.damage = "key_body" -> SubSeq(full, 1, 7 + KeyLen \div 2)
          [] OTHER -> full

\* The instants at which timeliness is asked about: around each expiry.
CheckTimes ==
    UNION {{e * 3600 - 1, e * 3600, e * 3600 + 1} : e \in ExpHoursSet}

\* ------------------------------------------------------------------------
\* The certificate pipeline
\* ------------------------------------------------------------------------
CertStages == {"KeyUnknownCert", "UncheckedCert", "SigCheckedCert", "Ed25519Cert"}

InitCertIdle ==
    /\ stage = "bytes"
    /\ wire = << >>
    /\ wireSpec = None
    /\ theCert = None
    /\ certText = << >>
    /\ certSig = << >>
    /\ certErr = ""
    /\ steps = << >>
    /\ obs = None
    /\ orig = None

InitCert ==
    /\ \E ws \in WireSpecs : wire = BuildWire(ws) /\ wireSpec = Some(ws)
    /\ stage = "bytes"
    /\ theCert = None
    /\ certText = << >>
    /\ certSig = << >>
    /\ certErr = ""
    /\ steps = << >>
    /\ obs = None
    /\ orig = None

\* An operation failed: the caller holds the error and nothing else.
Fail(e, step) ==
    /\ stage' = "Err"
    /\ certErr' = e
    /\ theCert' = None
    /\ certText' = << >>
    /\ certSig' = << >>
    /\ steps' = Append(steps, step)

\* Ed25519Cert::decode(wire)
Decode ==
    /\ stage = "bytes"
    /\ steps = << >>
    /\ \E d \in {Ed25519Cert_decode(wire)} :
           IF d.ok
           THEN /\ stage' = "KeyUnknownCert"
                /\ theCert' = d.cert
                /\ certText' = d.text
                /\ certSig' = d.signature
                /\ steps' = << "decode" >>
                /\ UNCHANGED certErr
           ELSE Fail(d.err, "decode")
    /\ obs' = None
    /\ UNCHANGED << wire, wireSpec, orig >>
    /\ UNCHANGED nonCertVars

\* KeyUnknownCert::check_key(pkey)
CheckKey(pkey) ==
    /\ stage = "KeyUnknownCert"
    /\ LET c == Unwrap(theCert)
           k == KeyUnknownCert_check_key(c.signed_with, pkey)
       IN  /\ IF k.ok
              THEN /\ stage' = "UncheckedCert"
                   /\ theCert' = Some([c EXCEPT !.signed_with = k.real_key])
                   /\ steps' = Append(steps, "check_key")
                   /\ UNCHANGED << certText, certSig, certErr >>
              ELSE Fail(k.err, "check_key")
           /\ obs' = Some([op |-> "check_key", pkey |-> pkey])
    /\ UNCHANGED << wire, wireSpec, orig >>
    /\ UNCHANGED nonCertVars

\* The signature is dropped with the UncheckedCert.
ToSigChecked(step) ==
    /\ stage' = "SigCheckedCert"
    /\ certText' = << >>
    /\ certSig' = << >>
    /\ steps' = Append(steps, step)
    /\ UNCHANGED << theCert, certErr >>

\* SelfSigned::check_signature: is_well_signed()?, then
\* dangerously_assume_wellsigned()
CheckSignature ==
    /\ stage = "UncheckedCert"
    /\ IF UncheckedCert_is_well_signed(Unwrap(theCert).signed_with, certText, certSig)
       THEN ToSigChecked("check_signature")
       ELSE Fail("BadMessage", "check_signature")
    /\ obs' = None
    /\ UNCHANGED << wire, wireSpec, orig >>
    /\ UNCHANGED nonCertVars

\* UncheckedCert::dangerously_assume_wellsigned
DangerouslyAssumeWellsigned ==
    /\ stage = "UncheckedCert"
    /\ ToSigChecked("dangerously_assume_wellsigned")
    /\ obs' = None
    /\ UNCHANGED << wire, wireSpec, orig >>
    /\ UNCHANGED nonCertVars

\* UncheckedCert::dangerously_split: the certificate, and the signature to
\* check later
DangerouslySplit ==
    /\ stage = "UncheckedCert"
    /\ ToSigChecked("dangerously_split")
    /\ obs' = None
    /\ UNCHANGED << wire, wireSpec, orig >>
    /\ UNCHANGED nonCertVars

\* SigCheckedCert::is_valid_at(t), by reference
IsValidAt(t) ==
    /\ stage = "SigCheckedCert"
    /\ LET v == SigCheckedCert_is_valid_at(Unwrap(theCert), t)
       IN  obs' = Some([op |-> "is_valid_at", t |-> t, ok |-> v.ok,
                        expired_by |-> v.expired_by])
    /\ UNCHANGED << stage, wire, wireSpec, theCert, certText, certSig, certErr, steps, orig >>
    /\ UNCHANGED nonCertVars

\* a timeliness step offered on a certificate whose signature is unchecked
DangerouslyAssumeTimely_Unchecked ==
    /\ stage \in {"UncheckedCert", "SigCheckedCert"}
    /\ stage' = "Ed25519Cert"
    /\ steps' = Append(steps, "dangerously_assume_timely")
    /\ certText' = << >>
    /\ certSig' = << >>
    /\ obs' = None
    /\ UNCHANGED << wire, wireSpec, theCert, certErr, orig >>
    /\ UNCHANGED nonCertVars

\* SigCheckedCert::dangerously_assume_timely
DangerouslyAssumeTimely ==
    /\ stage = "SigCheckedCert"
    /\ stage' = "Ed25519Cert"
    /\ steps' = Append(steps, "dangerously_assume_timely")
    /\ obs' = None
    /\ UNCHANGED << wire, wireSpec, theCert, certText, certSig, certErr, orig >>
    /\ UNCHANGED nonCertVars

\* Timebound::check_valid_at(t): is_valid_at(t)?, then
\* dangerously_assume_timely()
CheckValidAt(t) ==
    /\ stage = "SigCheckedCert"
    /\ IF SigCheckedCert_is_valid_at(Unwrap(theCert), t).ok
       THEN /\ stage' = "Ed25519Cert"
            /\ steps' = Append(steps, "check_valid_at")
            /\ UNCHANGED << theCert, certText, certSig, certErr >>
       ELSE Fail("Expired", "check_valid_at")
    /\ obs' = None
    /\ UNCHANGED << wire, wireSpec, orig >>
    /\ UNCHANGED nonCertVars

\* Ed25519Cert::is_expired_at(when)
IsExpiredAt(when) ==
    /\ stage = "Ed25519Cert"
    /\ obs' = Some([op |-> "is_expired_at", t |-> when,
                    ok |-> ~Ed25519Cert_is_expired_at(Unwrap(theCert), when),
                    expired_by |-> 0])
    /\ UNCHANGED << stage, wire, wireSpec, theCert, certText, certSig, certErr, steps, orig >>
    /\ UNCHANGED nonCertVars

\* Ed25519Cert::encode_and_sign(skey): the caller now holds bytes again
EncodeAndSign(skey) ==
    /\ stage = "Ed25519Cert"
    /\ orig = None
    /\ wire' = Ed25519Cert_encode_and_sign(Unwrap(theCert), skey)
    /\ orig' = Some([cert |-> Unwrap(theCert), skey |-> skey])
    /\ stage' = "bytes"
    /\ wireSpec' = None
    /\ theCert' = None
    /\ steps' = << >>
    /\ obs' = None
    /\ UNCHANGED << certText, certSig, certErr >>
    /\ UNCHANGED nonCertVars

NextCert ==
    \/ Decode
    \/ \E pkey \in {None} \cup {Some(KeyBytes(k)) : k \in Keys} : CheckKey(pkey)
    \/ CheckSignature
    \/ DangerouslyAssumeWellsigned
    \/ DangerouslySplit
    \/ \E t \in CheckTimes : IsValidAt(t)
    \/ DangerouslyAssumeTimely
    \/ \E t \in CheckTimes : CheckValidAt(t)
    \/ \E t \in CheckTimes : IsExpiredAt(t)
    \/ \E k \in Keys : EncodeAndSign(k)


\* ------------------------------------------------------------------------
\* Initial state of the guard part
\* ------------------------------------------------------------------------
InitGuard ==
    /\ NEXT_VAL = 1
    /\ usable = [r \in RequestIds |-> None]
    /\ vchan = [r \in RequestIds |-> oneshot_channel]
    /\ pending = [r \in RequestIds |-> None]
    /\ monitor = [r \in RequestIds |-> None]
    /\ schan = [r \in RequestIds |-> oneshot_channel]
    /\ panicked = FALSE
    /\ now = 1
    /\ reach = [g \in Guards |-> "untried"]
    /\ firstReply = [r \in RequestIds |-> None]
    /\ nReplies = [r \in RequestIds |-> 0]
    /\ vsends = [r \in RequestIds |-> << >>]
    /\ ssends = [r \in RequestIds |-> << >>]
    /\ monEnd = [r \in RequestIds |-> None]
    /\ lastPoll = [r \in RequestIds |-> None]
    /\ kind = [r \in RequestIds |-> "none"]
    /\ nOps = 0
    /\ handled = [r \in RequestIds |-> None]

\* ------------------------------------------------------------------------
\* Operations on the verdict side: GuardUsable and PendingRequest
\* ------------------------------------------------------------------------
monitorVars == << monitor, schan, ssends, monEnd >>
verdictVars == << usable, vchan, pending, firstReply, nReplies, vsends, lastPoll, kind >>

\* A request for a primary guard: GuardUsable::new_primary() and a
\* PendingRequest without a sender.
NewPrimary(g) ==
    /\ ~panicked
    /\ nOps < MaxOps
    /\ nOps' = nOps + 1
    /\ NEXT_VAL <= MaxReq
    /\ usable' = [usable EXCEPT ![NEXT_VAL] = Some(GuardUsable_new_primary)]
    /\ pending' = [pending EXCEPT ![NEXT_VAL] = Some(PendingRequest_new(g, None, None, now))]
    /\ kind' = [kind EXCEPT ![NEXT_VAL] = "primary"]
    /\ NEXT_VAL' = NEXT_VAL + 1
    /\ UNCHANGED << vchan, firstReply, nReplies, vsends, lastPoll, panicked, now, reach, handled >>
    /\ UNCHANGED monitorVars
    /\ UNCHANGED nonGuardVars

\* A request for a guard of undecided usability: GuardUsable::new_uncertain()
\* and a PendingRequest that holds the sender.
NewUncertain(g) ==
    /\ ~panicked
    /\ nOps < MaxOps
    /\ nOps' = nOps + 1
    /\ NEXT_VAL <= MaxReq
    /\ usable' = [usable EXCEPT ![NEXT_VAL] = Some(GuardUsable_new_uncertain.usable)]
    /\ vchan' = [vchan EXCEPT ![NEXT_VAL] = GuardUsable_new_uncertain.ch]
    /\ pending' = [pending EXCEPT ![NEXT_VAL] = Some(PendingRequest_new(g, None, Some("snd"), now))]
    /\ kind' = [kind EXCEPT ![NEXT_VAL] = "uncertain"]
    /\ NEXT_VAL' = NEXT_VAL + 1
    /\ UNCHANGED << firstReply, nReplies, vsends, lastPoll, panicked, now, reach, handled >>
    /\ UNCHANGED monitorVars
    /\ UNCHANGED nonGuardVars

\* The manager calls reply(b) on the record of request r.
Reply(r, b) ==
    /\ ~panicked
    /\ nOps < MaxOps
    /\ nOps' = nOps + 1
    /\ IsSome(pending[r])
    /\ LET res == PendingRequest_reply(Unwrap(pending[r]), vchan[r], b)
       IN  /\ pending' = [pending EXCEPT ![r] = Some(res.self)]
           /\ vchan' = [vchan EXCEPT ![r] = res.ch]
           /\ vsends' = [vsends EXCEPT ![r] = @ \o res.sent]
           /\ panicked' = res.panic
    /\ firstReply' = [firstReply EXCEPT ![r] =
           IF nReplies[r] = 0 THEN Some([arg |-> b, rxGone |-> usable[r] = None]) ELSE @]
    /\ nReplies' = [nReplies EXCEPT ![r] = @ + 1]
    /\ UNCHANGED << NEXT_VAL, usable, lastPoll, kind, now, reach, handled >>
    /\ UNCHANGED monitorVars
    /\ UNCHANGED nonGuardVars

\* The caller polls its GuardUsable.
PollUsable(r) ==
    /\ ~panicked
    /\ nOps < MaxOps
    /\ nOps' = nOps + 1
    /\ IsSome(usable[r])
    /\ LET res == GuardUsable_poll(Unwrap(usable[r]), vchan[r])
       IN  /\ vchan' = [vchan EXCEPT ![r] = res.ch]
           /\ lastPoll' = [lastPoll EXCEPT ![r] =
                  Some([out |-> res.out,
                        senderGone |-> ~(IsSome(pending[r])
                                          /\ IsSome(Unwrap(pending[r]).usable))])]
    /\ UNCHANGED << NEXT_VAL, usable, pending, firstReply, nReplies, vsends, kind, panicked, now, reach, handled >>
    /\ UNCHANGED monitorVars
    /\ UNCHANGED nonGuardVars

\* The caller drops its GuardUsable, and with it the receiver if it has one.
DropUsable(r) ==
    /\ ~panicked
    /\ nOps < MaxOps
    /\ nOps' = nOps + 1
    /\ IsSome(usable[r])
    /\ usable' = [usable EXCEPT ![r] = None]
    /\ vchan' = [vchan EXCEPT ![r] =
           IF IsSome(Unwrap(usable[r]).u) THEN Receiver_drop(@) ELSE @]
    /\ UNCHANGED << NEXT_VAL, pending, firstReply, nReplies, vsends, lastPoll, kind, panicked, now, reach, handled >>
    /\ UNCHANGED monitorVars
    /\ UNCHANGED nonGuardVars

\* The manager drops the record of request r, and with it the sender if the
\* record still holds it.
DropPending(r) ==
    /\ ~panicked
    /\ nOps < MaxOps
    /\ nOps' = nOps + 1
    /\ IsSome(pending[r])
    /\ pending' = [pending EXCEPT ![r] = None]
    /\ vchan' = [vchan EXCEPT ![r] = PendingRequest_drop(Unwrap(pending[r]), @)]
    /\ UNCHANGED << NEXT_VAL, usable, firstReply, nReplies, vsends, lastPoll, kind, panicked, now, reach, handled >>
    /\ UNCHANGED monitorVars
    /\ UNCHANGED nonGuardVars

NextVerdict ==
    \/ \E g \in Guards : NewPrimary(g)
    \/ \E g \in Guards : NewUncertain(g)
    \/ \E r \in RequestIds, b \in BOOLEAN : Reply(r, b)
    \/ \E r \in RequestIds : PollUsable(r)
    \/ \E r \in RequestIds : DropUsable(r)
    \/ \E r \in RequestIds : DropPending(r)

\* ------------------------------------------------------------------------
\* Operations on the status side: GuardMonitor
\* ------------------------------------------------------------------------
NewMonitor ==
    /\ ~panicked
    /\ NEXT_VAL <= MaxReq
    /\ monitor' = [monitor EXCEPT ![NEXT_VAL] = Some(GuardMonitor_new(NEXT_VAL).mon)]
    /\ schan' = [schan EXCEPT ![NEXT_VAL] = GuardMonitor_new(NEXT_VAL).ch]
    /\ NEXT_VAL' = NEXT_VAL + 1
    /\ UNCHANGED << ssends, monEnd, panicked, now, reach, nOps, handled >>
    /\ UNCHANGED verdictVars
    /\ UNCHANGED nonGuardVars

\* One of the calls that consume the monitor of request r.
ConsumeMonitor(r, how, res) ==
    /\ monitor' = [monitor EXCEPT ![r] = None]
    /\ schan' = [schan EXCEPT ![r] = res.ch]
    /\ ssends' = [ssends EXCEPT ![r] = @ \o res.sent]
    /\ monEnd' = [monEnd EXCEPT ![r] = Some(how)]
    /\ panicked' = res.panic
    /\ UNCHANGED << NEXT_VAL, now, reach, nOps, handled >>
    /\ UNCHANGED verdictVars
    /\ UNCHANGED nonGuardVars

Succeeded(r) ==
    /\ ~panicked
    /\ IsSome(monitor[r])
    /\ ConsumeMonitor(r, "succeeded", GuardMonitor_succeeded(Unwrap(monitor[r]), schan[r]))

Failed(r) ==
    /\ ~panicked
    /\ IsSome(monitor[r])
    /\ ConsumeMonitor(r, "failed", GuardMonitor_failed(Unwrap(monitor[r]), schan[r]))

AttemptAbandoned(r) ==
    /\ ~panicked
    /\ IsSome(monitor[r])
    /\ ConsumeMonitor(r, "attempt_abandoned",
                      GuardMonitor_attempt_abandoned(Unwrap(monitor[r]), schan[r]))

\* The monitor goes out of scope without a report.
DropMonitor(r) ==
    /\ ~panicked
    /\ IsSome(monitor[r])
    /\ LET d == GuardMonitor_drop(Unwrap(monitor[r]), schan[r])
       IN  ConsumeMonitor(r, "dropped", [ch |-> d.ch, sent |-> d.sent, panic |-> FALSE])

\* The manager's end of the status channel goes away.
DropStatusReceiver(r) ==
    /\ ~panicked
    /\ r < NEXT_VAL
    /\ schan[r] # Receiver_drop(schan[r])
    /\ schan' = [schan EXCEPT ![r] = Receiver_drop(@)]
    /\ UNCHANGED << NEXT_VAL, monitor, ssends, monEnd, panicked, now, reach, nOps, handled >>
    /\ UNCHANGED verdictVars
    /\ UNCHANGED nonGuardVars

NextMonitor ==
    \/ NewMonitor
    \/ \E r \in RequestIds : Succeeded(r)
    \/ \E r \in RequestIds : Failed(r)
    \/ \E r \in RequestIds : AttemptAbandoned(r)
    \/ \E r \in RequestIds : DropMonitor(r)
    \/ \E r \in RequestIds : DropStatusReceiver(r)

\* ------------------------------------------------------------------------
\* The verdict channel
\* ------------------------------------------------------------------------

\* C1: on the verdict channel of a request at most one verdict is ever sent;
\* the first reply() sends its argument, every later reply() sends nothing,
\* and what the receiver can read is that first argument.
C1_AtMostOneVerdict ==
    \A r \in RequestIds :
        /\ Len(vsends[r]) <= 1
        /\ nReplies[r] = 0 => vsends[r] = << >>
        /\ kind[r] = "primary" => vsends[r] = << >>
        /\ (kind[r] = "uncertain" /\ nReplies[r] >= 1)
              => vsends[r] = << Unwrap(firstReply[r]).arg >>
        /\ IsSome(vchan[r].data)
              => (nReplies[r] >= 1 /\ vchan[r].data = Some(Unwrap(firstReply[r]).arg))

\* A request with a verdict channel on which reply() was called more than once.
C1_Witness ==
    \E r \in RequestIds :
        kind[r] = "uncertain" /\ nReplies[r] >= 2 /\ Len(vsends[r]) = 1

\* C3: a poll of a GuardUsable made by new_primary gives Ok(true), with nothing
\* ever sent to it; a poll of one made by new_uncertain is Pending exactly
\* while the PendingRequest still holds the paired sender.
C3_PrimaryReadyUncertainWaits ==
    \A r \in RequestIds :
        IsSome(lastPoll[r]) =>
            /\ kind[r] = "primary"
                  => (Unwrap(lastPoll[r]).out = "Ok(true)" /\ vsends[r] = << >>)
            /\ kind[r] = "uncertain"
                  => (Unwrap(lastPoll[r]).out = "Pending"
                        <=> ~Unwrap(lastPoll[r]).senderGone)

\* A primary request polled before any reply, beside an uncertain one polled
\* while its sender is still held.
C3_Witness ==
    \E r1, r2 \in RequestIds :
        /\ kind[r1] = "primary" /\ IsSome(lastPoll[r1]) /\ nReplies[r1] = 0
        /\ kind[r2] = "uncertain" /\ IsSome(lastPoll[r2])
        /\ Unwrap(lastPoll[r2]).out = "Pending"

\* C4: a reply() to a request whose receiver the caller has dropped returns
\* without a panic, sends nothing the receiver could read, leaves the record
\* without its sender, and reply() stays possible on every record.
C4_ReplyAfterCancel ==
    /\ \A r \in RequestIds :
          (kind[r] = "uncertain" /\ nReplies[r] >= 1 /\ Unwrap(firstReply[r]).rxGone)
            => /\ ~panicked
               /\ vchan[r].data = None
               /\ IsSome(pending[r]) => Unwrap(pending[r]).usable = None
    /\ \A r \in RequestIds, b \in BOOLEAN :
          (IsSome(pending[r]) /\ nOps < MaxOps) => ENABLED Reply(r, b)

\* The receiver of one request was dropped before its reply, and a reply on
\* another request was delivered.
C4_Witness ==
    \E r1, r2 \in RequestIds :
        /\ r1 # r2
        /\ kind[r1] = "uncertain" /\ nReplies[r1] >= 1 /\ Unwrap(firstReply[r1]).rxGone
        /\ kind[r2] = "uncertain" /\ nReplies[r2] >= 1 /\ IsSome(vchan[r2].data)

\* ------------------------------------------------------------------------
\* The status channel
\* ------------------------------------------------------------------------
ExpectedStatus(how) ==
    CASE how = "succeeded" -> "Success"
      [] how = "failed" -> "Failure"
      [] OTHER -> "AttemptAbandoned"

\* C2: a live GuardMonitor has sent nothing; one that was consumed has sent
\* exactly one status message, Success for succeeded(), Failure for failed(),
\* AttemptAbandoned for attempt_abandoned() or a plain drop.
C2_ExactlyOneStatus ==
    /\ ~panicked
    /\ \A r \in RequestIds :
          /\ IsSome(monitor[r]) => (ssends[r] = << >> /\ monEnd[r] = None)
          /\ IsSome(monEnd[r])
                => /\ monitor[r] = None
                   /\ ssends[r] = << Status(r, ExpectedStatus(Unwrap(monEnd[r]))) >>

\* One monitor consumed by succeeded() and one by a plain drop.
C2_Witness ==
    \E r1, r2 \in RequestIds :
        /\ monEnd[r1] = Some("succeeded") /\ Len(ssends[r1]) = 1
        /\ monEnd[r2] = Some("dropped") /\ Len(ssends[r2]) = 1

\* ------------------------------------------------------------------------
\* The Guard Manager's event loop: select_guard and report_status
\* ------------------------------------------------------------------------
Allowed(g, usage) == usage # Some(g)

Min(S) == CHOOSE x \in S : \A y \in S : x <= y

\* A guard is primary when every guard of higher priority is known to be down.
IsPrimary(g, rch) == \A h \in Guards : h < g => rch[h] = "down"

\* The first guard, in priority order, that the usage allows: a working one if
\* there is one, else one that is down.
pick_guard(usage) ==
    LET working == {g \in Guards : reach[g] # "down" /\ Allowed(g, usage)}
        down == {g \in Guards : reach[g] = "down" /\ Allowed(g, usage)}
    IN  IF working # {} THEN Some(Min(working))
        ELSE IF down # {} THEN Some(Min(down))
        ELSE None

\* select_guard(usage): a guard, a monitor and a verdict future.
SelectGuard(usage) ==
    /\ ~panicked
    /\ NEXT_VAL <= MaxReq
    /\ IsSome(pick_guard(usage))
    /\ LET g == Unwrap(pick_guard(usage))
           r == NEXT_VAL
           primary == IsPrimary(g, reach)
       IN  /\ usable' = [usable EXCEPT ![r] =
                  Some(IF primary THEN GuardUsable_new_primary
                       ELSE GuardUsable_new_uncertain.usable)]
           /\ vchan' = [vchan EXCEPT ![r] = GuardUsable_new_uncertain.ch]
           /\ pending' = [pending EXCEPT ![r] =
                  Some(PendingRequest_new(g, usage,
                                          IF primary THEN None ELSE Some("snd"), now))]
           /\ kind' = [kind EXCEPT ![r] = IF primary THEN "primary" ELSE "uncertain"]
           /\ monitor' = [monitor EXCEPT ![r] = Some(GuardMonitor_new(r).mon)]
           /\ schan' = [schan EXCEPT ![r] = GuardMonitor_new(r).ch]
    /\ NEXT_VAL' = NEXT_VAL + 1
    /\ UNCHANGED << firstReply, nReplies, vsends, lastPoll, ssends, monEnd,
                    panicked, now, reach, nOps, handled >>
    /\ UNCHANGED nonGuardVars

\* The verdict for a waiting request on guard g: false once a guard of higher
\* priority is up, true once all of them are down, else none yet.
circ_usability_status(g, rch) ==
    IF \E h \in Guards : h < g /\ rch[h] = "up" THEN Some(FALSE)
    ELSE IF \A h \in Guards : h < g => rch[h] = "down" THEN Some(TRUE)
    ELSE None

\* The waiting requests of pend that have a verdict under rch.
Resolvable(pend, rch) ==
    {q \in RequestIds :
        /\ IsSome(pend[q])
        /\ IsSome(Unwrap(pend[q]).waiting_since)
        /\ IsSome(circ_usability_status(Unwrap(pend[q]).guard_id, rch))}

\* Answer every waiting request that has a verdict, and destroy its record.
ResolveAll(pend, vch, rch) ==
    /\ pending' = [q \in RequestIds |->
           IF q \in Resolvable(pend, rch) THEN None ELSE pend[q]]
    /\ vchan' = [q \in RequestIds |->
           IF q \in Resolvable(pend, rch)
           THEN PendingRequest_reply(Unwrap(pend[q]), vch[q],
                    Unwrap(circ_usability_status(Unwrap(pend[q]).guard_id, rch))).ch
           ELSE vch[q]]
    /\ vsends' = [q \in RequestIds |->
           IF q \in Resolvable(pend, rch)
           THEN vsends[q] \o PendingRequest_reply(Unwrap(pend[q]), vch[q],
                    Unwrap(circ_usability_status(Unwrap(pend[q]).guard_id, rch))).sent
           ELSE vsends[q]]
    /\ reach' = rch

\* The status message the manager would next take from the channel of r.
StatusWaiting(r) == IF IsSome(schan[r].data) THEN Unwrap(schan[r].data).status ELSE "none"

\* report_status: the manager takes the status message of request r from its
\* channel and acts on it.
HandleMsg(r) ==
    /\ ~panicked
    /\ IsSome(schan[r].data)
    /\ IsSome(pending[r])
    /\ schan' = [schan EXCEPT ![r] = Receiver_poll(@).ch]
    /\ handled' = [handled EXCEPT ![r] = Some([status |-> StatusWaiting(r), at |-> now,
                       guard |-> Unwrap(pending[r]).guard_id])]
    /\ now' = now + 1
    /\ LET rec == Unwrap(pending[r])
           g == rec.guard_id
           dropped == [pending EXCEPT ![r] = None]
           vdropped == [vchan EXCEPT ![r] = PendingRequest_drop(rec, @)]
       IN  CASE StatusWaiting(r) = "Success" ->
                  ResolveAll([pending EXCEPT ![r] =
                                  Some(PendingRequest_mark_waiting(rec, now))],
                             vchan, [reach EXCEPT ![g] = "up"])
             [] StatusWaiting(r) = "Failure" ->
                  ResolveAll(dropped, vdropped, [reach EXCEPT ![g] = "down"])
             [] OTHER ->
                  /\ pending' = dropped
                  /\ vchan' = vdropped
                  /\ UNCHANGED << vsends, reach >>
    /\ UNCHANGED << NEXT_VAL, usable, monitor, panicked, firstReply, nReplies, ssends,
                    monEnd, lastPoll, kind, nOps >>
    /\ UNCHANGED nonGuardVars

NextGuardMgr ==
    \/ \E u \in GuardUsages : SelectGuard(u)
    \/ \E r \in RequestIds : Succeeded(r)
    \/ \E r \in RequestIds : Failed(r)
    \/ \E r \in RequestIds : AttemptAbandoned(r)
    \/ \E r \in RequestIds : HandleMsg(r)

\* The request r is marked as waiting and has no verdict yet.
Waiting(r) == IsSome(pending[r]) /\ IsSome(Unwrap(pending[r]).waiting_since)

\* What the manager's handling of a Success report for r1 does to r1 itself,
\* when r1 is for a non-primary guard with an untried guard ahead of it, and to
\* a request r2 that waits on a guard of lower priority.
C5_Step ==
    \A r1 \in RequestIds :
        (HandleMsg(r1) /\ StatusWaiting(r1) = "Success") =>
            /\ ( /\ kind[r1] = "uncertain"
                 /\ \E h \in Guards : h < Unwrap(pending[r1]).guard_id /\ reach[h] = "untried"
                 /\ ~\E h \in Guards : h < Unwrap(pending[r1]).guard_id /\ reach[h] = "up" )
               => /\ IsSome(pending'[r1])
                  /\ Unwrap(pending'[r1]).waiting_since = Some(now)
                  /\ IsSome(Unwrap(pending'[r1]).usable)
                  /\ vsends'[r1] = << >>
            /\ \A r2 \in RequestIds :
                 ( /\ Waiting(r2)
                   /\ kind[r2] = "uncertain"
                   /\ Unwrap(pending[r1]).guard_id < Unwrap(pending[r2]).guard_id )
                 => /\ vsends[r2] = << >>
                    /\ vsends'[r2] = << FALSE >>
                    /\ GuardUsable_poll(Unwrap(usable'[r2]), vchan'[r2]).out = "Ok(false)"

SigSteps == {"check_signature", "dangerously_assume_wellsigned", "dangerously_split"}
TimeSteps == {"check_valid_at", "dangerously_assume_timely"}

StageRank(s) ==
    CASE s = "KeyUnknownCert" -> 1
      [] s = "UncheckedCert" -> 2
      [] s = "SigCheckedCert" -> 3
      [] s = "Ed25519Cert" -> 4
      [] OTHER -> 0

\* The operations a certificate in stage s has been through, in order.
PassedInOrder(s, ops) ==
    /\ Len(ops) = StageRank(s)
    /\ Len(ops) >= 1 => ops[1] = "decode"
    /\ Len(ops) >= 2 => ops[2] = "check_key"
    /\ Len(ops) >= 3 => ops[3] \in SigSteps
    /\ Len(ops) >= 4 => ops[4] \in TimeSteps

C6_Step ==
    /\ stage' \in CertStages => PassedInOrder(stage', steps')
    /\ (stage \in CertStages /\ stage' \in CertStages) => StageRank(stage') >= StageRank(stage)

\* C6: a certificate is in one of four states, KeyUnknownCert, UncheckedCert,
\* SigCheckedCert and Ed25519Cert; no operation takes a certificate from a
\* later state to an earlier one, and a certificate in the last state has
\* passed decode, check_key, a signature step and a timeliness step, in
\* that order.
C6_ForwardOnly == [][C6_Step]_vars

C6_Witness ==
    /\ stage = "Ed25519Cert"
    /\ steps = << "decode", "check_key", "check_signature", "check_valid_at" >>

\* C7: decoding the bytes encode_and_sign(c, k) returns gives a certificate
\* with c's type, exp_hours, certified key and extensions, whose signature
\* verifies under k's public key.
C7_RoundTrip ==
    (IsSome(orig) /\ steps = << "decode" >>) =>
        /\ stage = "KeyUnknownCert"
        /\ Unwrap(theCert).cert_type = Unwrap(orig).cert.cert_type
        /\ Unwrap(theCert).exp_hours = Unwrap(orig).cert.exp_hours
        /\ Unwrap(theCert).cert_key = Unwrap(orig).cert.cert_key
        /\ Unwrap(theCert).extensions = Unwrap(orig).cert.extensions
        /\ Verify(KeyBytes(Unwrap(orig).skey), certText, certSig)

\* The extensions of unknown type on the wire whose flags have bit 0 set.
FlaggedUnrecognized(ws) ==
    {i \in DOMAIN ws.exts : /\ ws.exts[i].ext_type # SIGNED_WITH_ED25519_KEY
                            /\ ws.exts[i].flags % 2 = 1}

\* C8: decode fails with BadMessage on an extension of unrecognized type
\* whose flags have bit 0 set; an unrecognized extension with flags 0 is kept
\* as Unrecognized, with affects_validation false, its type and its body.
C8_UnrecognizedExtensions ==
    (IsSome(wireSpec) /\ steps # << >>) =>
        LET ws == Unwrap(wireSpec)
        IN  /\ (FlaggedUnrecognized(ws) # {} /\ ws.damage \notin {"key_body", "ext_body"}) =>
                   /\ stage = "Err"
                   /\ certErr = "BadMessage"
                   /\ steps = << "decode" >>
            /\ stage \in CertStages =>
                   /\ Len(Unwrap(theCert).extensions) = Len(ws.exts)
                   /\ \A i \in DOMAIN ws.exts :
                          (ws.exts[i].ext_type # SIGNED_WITH_ED25519_KEY /\ ws.exts[i].flags = 0) =>
                              LET e == Unwrap(theCert).extensions[i]
                              IN  /\ e.variant = "Unrecognized"
                                  /\ e.affects_validation = FALSE
                                  /\ e.ext_type = ws.exts[i].ext_type
                                  /\ e.body = ws.exts[i].body

C8_Witness ==
    /\ IsSome(wireSpec)
    /\ Unwrap(wireSpec).damage = "none"
    /\ FlaggedUnrecognized(Unwrap(wireSpec)) # {}
    /\ \E i \in DOMAIN Unwrap(wireSpec).exts :
           Unwrap(wireSpec).exts[i].ext_type = 7 /\ Unwrap(wireSpec).exts[i].flags = 0
    /\ steps = << "decode" >>
    /\ certErr = "BadMessage"

\* The key in the first SIGNED_WITH_ED25519_KEY extension on the wire.
IncludedKey(ws) ==
    LET idx == {i \in DOMAIN ws.exts : ws.exts[i].ext_type = SIGNED_WITH_ED25519_KEY}
    IN  IF idx = {} THEN None
        ELSE Some(ws.exts[CHOOSE i \in idx : \A j \in idx : i <= j].body)

\* C9: check_key(pkey) fails when the certificate carries a signing key that
\* differs from the given one, and when it carries none and none is given;
\* otherwise it binds whichever key is present.
C9_CheckKey ==
    (IsSome(obs) /\ Unwrap(obs).op = "check_key" /\ IsSome(wireSpec)) =>
        LET given == Unwrap(obs).pkey
            carried == IncludedKey(Unwrap(wireSpec))
        IN  IF \/ IsSome(given) /\ IsSome(carried) /\ given # carried
               \/ given = None /\ carried = None
            THEN stage = "Err" /\ certErr = "BadMessage"
            ELSE /\ stage = "UncheckedCert"
                 /\ Unwrap(theCert).signed_with = (IF IsSome(given) THEN given ELSE carried)

C9_Witness ==
    /\ IsSome(obs)
    /\ Unwrap(obs).op = "check_key"
    /\ IsSome(wireSpec)
    /\ IsSome(IncludedKey(Unwrap(wireSpec)))
    /\ IsSome(Unwrap(obs).pkey)
    /\ Unwrap(obs).pkey # IncludedKey(Unwrap(wireSpec))
    /\ stage = "Err"

\* C10: with E = exp_hours * 3600 seconds after the epoch, is_valid_at(t) is
\* Ok when t < E and Expired(t - E) when t >= E, and is_expired_at(t) is true
\* exactly when is_valid_at(t) is an error.
C10_Expiry ==
    (IsSome(obs) /\ IsSome(wireSpec)) =>
        LET o == Unwrap(obs)
            E == Unwrap(wireSpec).exp_hours * 3600
        IN  /\ o.op = "is_valid_at" =>
                   /\ o.ok <=> o.t < E
                   /\ ~o.ok => o.expired_by = o.t - E
            /\ o.op = "is_expired_at" =>
                   /\ ~o.ok <=> ~SigCheckedCert_is_valid_at(Unwrap(theCert), o.t).ok
                   /\ ~o.ok <=> o.t >= E

C10_Witness ==
    /\ IsSome(obs)
    /\ IsSome(wireSpec)
    /\ Unwrap(wireSpec).exp_hours = 1
    /\ Unwrap(obs).op = "is_valid_at"
    /\ Unwrap(obs).t = 3601
    /\ ~Unwrap(obs).ok
    /\ Unwrap(obs).expired_by = 1

\* The wire declares a length that runs past the end of the input.
LengthOverrun(ws) ==
    \/ ws.damage \in {"truncated", "ext_count", "key_body"}
    \/ ws.damage = "ext_body" /\ ws.exts # << >>

\* C11: decode returns an error and no certificate whenever the version
\* byte is not 1, or a declared length (an extension's body_len, the
\* extension count, the key body, the signature) runs past the end of the
\* input.
C11_DecodeErrors ==
    (IsSome(wireSpec) /\ steps # << >>) =>
        ((Unwrap(wireSpec).damage = "version" \/ LengthOverrun(Unwrap(wireSpec))) =>
            /\ stage = "Err"
            /\ theCert = None
            /\ steps = << "decode" >>
            /\ Unwrap(wireSpec).damage = "version" => certErr = "BadMessage"
            /\ Unwrap(wireSpec).damage = "key_body" => certErr = "Truncated")

C11_Witness ==
    /\ IsSome(wireSpec)
    /\ Unwrap(wireSpec).damage = "ext_body"
    /\ Len(Unwrap(wireSpec).exts) = 2
    /\ FlaggedUnrecognized(Unwrap(wireSpec)) = {}
    /\ stage = "Err"
    /\ certErr = "Truncated"
    /\ steps = << "decode" >>

\* C12: whenever decode succeeds on input b the whole of b was consumed (a
\* byte after the signature is an error), the text kept for the signature
\* check is b without its last 64 bytes and the signature is those 64
\* bytes; check_signature succeeds exactly when that signature verifies
\* that text under the key bound by check_key.
C12_WholeInputConsumed ==
    (steps # << >> /\ steps[1] = "decode") =>
        /\ (IsSome(wireSpec) /\ Unwrap(wireSpec).damage = "trailing") => stage = "Err"
        /\ stage \in {"KeyUnknownCert", "UncheckedCert"} =>
               /\ Len(wire) >= SigLen
               /\ certText = SubSeq(wire, 1, Len(wire) - SigLen)
               /\ certSig = SubSeq(wire, Len(wire) - SigLen + 1, Len(wire))
        /\ (Len(steps) = 3 /\ steps[3] = "check_signature" /\ IsSome(wireSpec)) =>
               LET ws == Unwrap(wireSpec)
               IN  /\ stage = "SigCheckedCert" =>
                          Verify(Unwrap(Unwrap(theCert).signed_with),
                                 SubSeq(wire, 1, Len(wire) - SigLen),
                                 SubSeq(wire, Len(wire) - SigLen + 1, Len(wire)))
                   /\ stage = "Err" =>
                          \/ ws.signer \notin Keys
                          \/ IncludedKey(ws) # Some(KeyBytes(ws.signer))

C12_Witness ==
    /\ stage = "KeyUnknownCert"
    /\ IsSome(wireSpec)
    /\ Len(Unwrap(wireSpec).exts) = 2
    /\ certText \o certSig = wire
    /\ Len(certSig) = SigLen

\* C28: a decoded certificate whose key-type byte is ED25519_KEY has, when
\* its type is SIGNING_V_TLS_CERT, a SHA-256-of-X.509 certified key, and for
\* any other type an Ed25519 certified key; either way the key is the 32
\* bytes that follow the key-type byte.
C28_TlsCertKeyType ==
    (IsSome(wireSpec) /\ stage = "KeyUnknownCert" /\ wire[7] = ED25519_KEY) =>
        /\ CertifiedKey_as_bytes(Unwrap(theCert).cert_key) = SubSeq(wire, 8, 7 + KeyLen)
        /\ IF wire[2] = SIGNING_V_TLS_CERT
           THEN /\ Unwrap(theCert).cert_key.variant = "X509Sha256Digest"
                /\ CertifiedKey_get_key_type(Unwrap(theCert).cert_key) = SHA256_OF_X509
           ELSE /\ Unwrap(theCert).cert_key.variant = "Ed25519"
                /\ CertifiedKey_get_key_type(Unwrap(theCert).cert_key) = ED25519_KEY

C28_Witness ==
    /\ IsSome(wireSpec) /\ stage = "KeyUnknownCert"
    /\ wire[7] = ED25519_KEY /\ wire[2] = SIGNING_V_TLS_CERT
    /\ Unwrap(theCert).cert_key.variant = "X509Sha256Digest"
    /\ Unwrap(theCert).cert_type = SIGNING_V_TLS_CERT

\* ------------------------------------------------------------------------
\* tor-proto: the VERSIONS cell (chancell/msg.rs)
\* ------------------------------------------------------------------------
MaxVers == 3

\* ChanCmd::VERSIONS
VERSIONS == 7

\* The link protocols that appear in lists; 258 is 0x0102.
VersionSet == {0, 3, 4, 5, 6, 258}
\* The lists the caller passes as my_protos.
MyProtosSet == {<< 3, 4, 5 >>, << 3, 4 >>, << 5, 258, 3 >>, << 0 >>}

Range(f) == {f[i] : i \in DOMAIN f}
u16_max(a, b) == IF a >= b THEN a ELSE b

\* Versions::new
Versions_new(vs) == [versions |-> vs]

RECURSIVE Versions_write_body_onto(_)
\* for v in self.versions.iter() { w.write_u16(*v) }
Versions_write_body_onto(vs) ==
    IF vs = << >> THEN << >>
    ELSE write_u16(Head(vs)) \o Versions_write_body_onto(Tail(vs))

\* encode_for_handshake with the circuit-ID width of link protocol 4
Versions_encode_for_handshake_Wide(self) ==
    write_u32(0) \o write_u8(VERSIONS) \o write_u16((Len(self.versions) * 2) % 65536)
      \o Versions_write_body_onto(self.versions)

\* Versions::encode_for_handshake
Versions_encode_for_handshake(self) ==
    write_u16(0) \o write_u8(VERSIONS) \o write_u16((Len(self.versions) * 2) % 65536)
      \o Versions_write_body_onto(self.versions)

RECURSIVE fold_max(_, _, _)
\* my_protos.iter().filter(|p| versions.contains(p)).fold(acc, u16::max)
fold_max(vs, protos, acc) ==
    IF protos = << >> THEN acc
    ELSE fold_max(vs, Tail(protos),
                  IF Head(protos) \in Range(vs) THEN u16_max(acc, Head(protos)) ELSE acc)

\* Versions::best_shared_link_protocol
Versions_best_shared_link_protocol(self, protos) ==
    IF fold_max(self.versions, protos, 0) = 0 THEN None
    ELSE Some(fold_max(self.versions, protos, 0))

RECURSIVE Versions_take_from(_, _)
\* Readable for Versions: while r.remaining() > 0 { versions.push(r.take_u16()?) }
Versions_take_from(b, off) ==
    IF Reader_remaining(b, off) <= 0 THEN [ok |-> TRUE, versions |-> << >>]
    ELSE IF Reader_truncated(b, off, 2) THEN [ok |-> FALSE, versions |-> << >>]
    ELSE IF ~Versions_take_from(b, off + 2).ok THEN [ok |-> FALSE, versions |-> << >>]
    ELSE [ok |-> TRUE,
          versions |-> << Reader_take_u16(b, off) >> \o Versions_take_from(b, off + 2).versions]

InitVersionsIdle ==
    /\ versions = << >>
    /\ my_protos = << >>
    /\ shared = None
    /\ cellBytes = None
    /\ reread = None

InitVersions ==
    /\ versions \in SeqsUpTo(VersionSet, MaxVers)
    /\ my_protos \in MyProtosSet
    /\ shared = None
    /\ cellBytes = None
    /\ reread = None

BestSharedLinkProtocol ==
    /\ shared = None
    /\ shared' = Some(Versions_best_shared_link_protocol(Versions_new(versions), my_protos))
    /\ UNCHANGED << versions, my_protos, cellBytes, reread >>
    /\ UNCHANGED nonVersionsVars

EncodeForHandshake ==
    /\ cellBytes = None
    /\ cellBytes' = Some(Versions_encode_for_handshake(Versions_new(versions)))
    /\ UNCHANGED << versions, my_protos, shared, reread >>
    /\ UNCHANGED nonVersionsVars

\* The receiver reads the body that follows the five header bytes.
TakeFrom ==
    /\ IsSome(cellBytes)
    /\ reread = None
    /\ Len(Unwrap(cellBytes)) >= 5
    /\ reread' = Some(Versions_take_from(Unwrap(cellBytes), 5))
    /\ UNCHANGED << versions, my_protos, shared, cellBytes >>
    /\ UNCHANGED nonVersionsVars

NextVersions ==
    \/ BestSharedLinkProtocol
    \/ EncodeForHandshake
    \/ TakeFrom

Max(S) == CHOOSE x \in S : \A y \in S : x >= y

C16_HandshakeEncoding ==
    IsSome(cellBytes) =>
        LET b == Unwrap(cellBytes)
            n == Len(versions)
        IN  /\ Len(b) = 5 + 2 * n
            /\ \A i \in DOMAIN b : b[i] \in 0..255
            /\ b[1] = 0 /\ b[2] = 0
            /\ b[3] = 7
            /\ b[4] * 256 + b[5] = 2 * n
            /\ \A i \in 1..n : b[4 + 2 * i] * 256 + b[5 + 2 * i] = versions[i]
            /\ IsSome(reread) =>
                   Unwrap(reread) = [ok |-> TRUE, versions |-> versions]

C16_Witness ==
    /\ IsSome(cellBytes)
    /\ IsSome(reread)
    /\ versions = << 4, 258, 5 >>
    /\ shared = Some(Some(5))
    /\ Unwrap(cellBytes) = << 0, 0, 7, 0, 6, 0, 4, 1, 2, 0, 5 >>

\* ------------------------------------------------------------------------
\* tor-proto: NETINFO and CERTS cells (chancell/msg.rs)
\* ------------------------------------------------------------------------
\* take_one_netinfo_addr: atype:u8, alen:u8, then alen bytes
take_one_netinfo_addr(b, off) ==
    IF Reader_truncated(b, off, 2) THEN [ok |-> FALSE, off |-> off, addr |-> None]
    ELSE IF Reader_truncated(b, off + 2, Reader_take_u8(b, off + 1))
    THEN [ok |-> FALSE, off |-> off, addr |-> None]
    ELSE [ok |-> TRUE, off |-> off + 2 + Reader_take_u8(b, off + 1),
          addr |-> IF \/ Reader_take_u8(b, off) = 4 /\ Reader_take_u8(b, off + 1) = 4
                      \/ Reader_take_u8(b, off) = 6 /\ Reader_take_u8(b, off + 1) = 16
                   THEN Some(Reader_take(b, off + 2, Reader_take_u8(b, off + 1)))
                   ELSE None]

RECURSIVE take_netinfo_addrs(_, _, _)
\* for _ in 0..my_n_addrs { take_one_netinfo_addr(r)? }
take_netinfo_addrs(b, off, n) ==
    IF n = 0 THEN TRUE
    ELSE IF ~take_one_netinfo_addr(b, off).ok THEN FALSE
    ELSE take_netinfo_addrs(b, take_one_netinfo_addr(b, off).off, n - 1)

\* Readable for Netinfo: Ok or Err
Netinfo_take_from(b) ==
    /\ ~Reader_truncated(b, 0, 4)
    /\ take_one_netinfo_addr(b, 4).ok
    /\ ~Reader_truncated(b, take_one_netinfo_addr(b, 4).off, 1)
    /\ take_netinfo_addrs(b, take_one_netinfo_addr(b, 4).off + 1,
                          Reader_take_u8(b, take_one_netinfo_addr(b, 4).off))

\* TorCert
TorCert(certtype, cert) == [certtype |-> certtype, cert |-> cert]

\* The first certificate labelled tp, if any.
find_cert(self, tp) ==
    LET idx == {i \in DOMAIN self.certs : self.certs[i].certtype = tp}
    IN  IF idx = {} THEN None
        ELSE Some(self.certs[CHOOSE i \in idx : \A j \in idx : i <= j])

\* parse_ed_cert that trusts the label
Certs_parse_ed_cert_TrustLabel(self, tp) ==
    IF find_cert(self, tp) = None
    THEN [ok |-> FALSE, err |-> "ChanProto", cert |-> None, text |-> << >>, signature |-> << >>]
    ELSE Ed25519Cert_decode(Unwrap(find_cert(self, tp)).cert)

\* Certs::parse_ed_cert: Ok(KeyUnknownCert) or Err
Certs_parse_ed_cert(self, tp) ==
    IF find_cert(self, tp) = None
    THEN [ok |-> FALSE, err |-> "ChanProto", cert |-> None, text |-> << >>, signature |-> << >>]
    ELSE IF ~Ed25519Cert_decode(Unwrap(find_cert(self, tp)).cert).ok
    THEN Ed25519Cert_decode(Unwrap(find_cert(self, tp)).cert)
    ELSE IF Unwrap(Ed25519Cert_decode(Unwrap(find_cert(self, tp)).cert).cert).cert_type # tp
    THEN [ok |-> FALSE, err |-> "ChanProto", cert |-> None, text |-> << >>, signature |-> << >>]
    ELSE Ed25519Cert_decode(Unwrap(find_cert(self, tp)).cert)

\* ------------------------------------------------------------------------
\* The channel handshake, as a client runs it
\* ------------------------------------------------------------------------
MaxCells == 4

\* The link protocols we support.
LinkProtocols == << 3, 4, 5 >>
\* The instant of the handshake, in seconds: two hours after the epoch.
HandshakeNow == 2 * 3600

\* What the peer may send.  A cell is its command and what its body holds:
\* the version list of a VERSIONS cell; how the identity and the TLS
\* certificate of a CERTS cell are made; how the body of a NETINFO cell is made.
PeerCell(cmd, vs, id, tls, body) ==
    [cmd |-> cmd, versions |-> vs, id |-> id, tls |-> tls, body |-> body]

PeerVersionsSet == {<< 4, 5, 6 >>, << 4, 3 >>, << 3 >>, << 6, 7 >>}
\* The identity certificate: right; with a signature that is not one;
\* expired at the handshake; or not in the cell.
IdCertKinds == {"good", "badsig", "expired", "absent"}
\* The TLS certificate: right; signed by a key other than the one the
\* identity certificate certifies; with a signature that is not one; expired;
\* not in the cell; or a certificate of another type under the TLS label.
TlsCertKinds == {"good", "unbound", "badsig", "expired", "absent", "mislabeled"}
CertsKinds ==
    {<< "good", t >> : t \in TlsCertKinds} \cup {<< i, "good" >> : i \in IdCertKinds}
\* The NETINFO body: whole; ending inside the first address; or counting
\* one address more than it holds.
NetinfoKinds == {"good", "short", "count"}

PeerCells ==
    {PeerCell("VERSIONS", v, "", "", "") : v \in PeerVersionsSet}
    \cup {PeerCell("CERTS", << >>, k[1], k[2], "") : k \in CertsKinds}
    \cup {PeerCell("AUTH_CHALLENGE", << >>, "", "", "")}
    \cup {PeerCell("NETINFO", << >>, "", "", b) : b \in NetinfoKinds}
    \cup {PeerCell("RELAY", << >>, "", "", "")}

\* The identity certificate certifies signing key 1 and is signed by
\* identity key 2, which it carries in its extension.
IdCertWire(how) ==
    BuildWire([cert_type |-> IDENTITY_V_SIGNING,
               exp_hours |-> IF how = "expired" THEN 1 ELSE 300,
               key_type |-> ED25519_KEY,
               exts |-> << [ext_type |-> SIGNED_WITH_ED25519_KEY, flags |-> 0,
                            body |-> KeyBytes(2)] >>,
               signer |-> IF how = "badsig" THEN 0 ELSE 2,
               damage |-> "none"])

\* The TLS certificate certifies a digest and is signed by the signing key.
TlsCertWire(how) ==
    BuildWire([cert_type |-> IF how = "mislabeled" THEN IDENTITY_V_SIGNING
                             ELSE SIGNING_V_TLS_CERT,
               exp_hours |-> IF how = "expired" THEN 1 ELSE 300,
               key_type |-> SHA256_OF_X509,
               exts |-> IF how = "unbound"
                        THEN << [ext_type |-> SIGNED_WITH_ED25519_KEY, flags |-> 0,
                                 body |-> KeyBytes(2)] >>
                        ELSE << >>,
               signer |-> CASE how = "badsig" -> 0
                            [] how = "unbound" -> 2
                            [] OTHER -> 1,
               damage |-> "none"])

\* The Certs message of a CERTS cell.
CertsOf(cell) ==
    [certs |->
        (IF cell.id = "absent" THEN << >>
         ELSE << TorCert(IDENTITY_V_SIGNING, IdCertWire(cell.id)) >>)
        \o (IF cell.tls = "absent" THEN << >>
            ELSE << TorCert(SIGNING_V_TLS_CERT, TlsCertWire(cell.tls)) >>)]

\* The body of a NETINFO cell: timestamp, their address, one address of ours.
NetinfoBody(cell) ==
    CASE cell.body = "short" -> << 0, 0, 0, 1, 4, 4, 10 >>
      [] cell.body = "count" -> << 0, 0, 0, 1, 4, 4, 10, 0, 0, 1, 2, 4, 4, 10, 0, 0, 2 >>
      [] OTHER -> << 0, 0, 0, 1, 4, 4, 10, 0, 0, 1, 1, 4, 4, 10, 0, 0, 2 >>

ChanResult(st, err, link) == [state |-> st, err |-> err, link |-> link]

\* The chain of a CERTS cell: the identity certificate is signed by the
\* identity key it carries, the TLS certificate by the signing key the
\* identity certificate certifies, and both are timely.
verify_certs(certs, at) ==
    LET id == Certs_parse_ed_cert(certs, IDENTITY_V_SIGNING)
        tls == Certs_parse_ed_cert(certs, SIGNING_V_TLS_CERT)
    IN  IF ~id.ok \/ ~tls.ok THEN FALSE
        ELSE
        LET idk == KeyUnknownCert_check_key(Unwrap(id.cert).signed_with, None)
            sk == Unwrap(id.cert).cert_key
            tlsk == KeyUnknownCert_check_key(Unwrap(tls.cert).signed_with,
                                             Some(CertifiedKey_as_bytes(sk)))
        IN  /\ idk.ok
            /\ UncheckedCert_is_well_signed(idk.real_key, id.text, id.signature)
            /\ SigCheckedCert_is_valid_at(Unwrap(id.cert), at).ok
            /\ sk.variant = "Ed25519"
            /\ tlsk.ok
            /\ UncheckedCert_is_well_signed(tlsk.real_key, tls.text, tls.signature)
            /\ SigCheckedCert_is_valid_at(Unwrap(tls.cert), at).ok

\* A handshake that waits for VERSIONS and lets other cells pass
on_versions_sent_Lenient(cell) ==
    IF cell.cmd # "VERSIONS" THEN ChanResult("VersionsSent", "", None)
    ELSE IF Versions_best_shared_link_protocol(
                Versions_new(Versions_take_from(Versions_write_body_onto(cell.versions), 0).versions),
                LinkProtocols) = None
    THEN ChanResult("Closed", "VersionMismatch", None)
    ELSE ChanResult("VersionsReceived", "",
             Versions_best_shared_link_protocol(
                Versions_new(Versions_take_from(Versions_write_body_onto(cell.versions), 0).versions),
                LinkProtocols))

\* In VersionsSent: the peer's VERSIONS, and nothing else, is acceptable.
on_versions_sent(cell) ==
    IF cell.cmd # "VERSIONS" THEN ChanResult("Closed", "Protocol", None)
    ELSE IF Versions_best_shared_link_protocol(
                Versions_new(Versions_take_from(Versions_write_body_onto(cell.versions), 0).versions),
                LinkProtocols) = None
    THEN ChanResult("Closed", "VersionMismatch", None)
    ELSE ChanResult("VersionsReceived", "",
             Versions_best_shared_link_protocol(
                Versions_new(Versions_take_from(Versions_write_body_onto(cell.versions), 0).versions),
                LinkProtocols))

\* In VersionsReceived: CERTS, validated.
on_versions_received(cell, link) ==
    IF cell.cmd # "CERTS" THEN ChanResult("Closed", "Protocol", None)
    ELSE IF ~verify_certs(CertsOf(cell), HandshakeNow)
    THEN ChanResult("Closed", "CertVerify", None)
    ELSE ChanResult("CertsReceived", "", link)

\* In CertsReceived: AUTH_CHALLENGE is ignored; NETINFO is decoded.
on_certs_received(cell, link) ==
    IF cell.cmd = "AUTH_CHALLENGE" THEN ChanResult("CertsReceived", "", link)
    ELSE IF cell.cmd # "NETINFO" THEN ChanResult("Closed", "Protocol", None)
    ELSE IF ~Netinfo_take_from(NetinfoBody(cell))
    THEN ChanResult("Closed", "Decode", None)
    ELSE ChanResult("NetinfoReceived", "", link)

handshake_step(st, link, cell) ==
    CASE st = "VersionsSent" -> on_versions_sent(cell)
      [] st = "VersionsReceived" -> on_versions_received(cell, link)
      [] st = "CertsReceived" -> on_certs_received(cell, link)

InitChanIdle ==
    /\ chanState = "Idle"
    /\ chanErr = ""
    /\ linkProto = None
    /\ sent = << >>
    /\ rcvd = << >>

\* A channel constructed over an open stream.
InitChan ==
    /\ chanState = "Initial"
    /\ chanErr = ""
    /\ linkProto = None
    /\ sent = << >>
    /\ rcvd = << >>

\* Initial: send VERSIONS listing the link protocols we support.
SendVersions ==
    /\ chanState = "Initial"
    /\ sent' = << [cmd |-> "VERSIONS",
                   bytes |-> Versions_encode_for_handshake(Versions_new(LinkProtocols))] >>
    /\ chanState' = "VersionsSent"
    /\ UNCHANGED << chanErr, linkProto, rcvd >>
    /\ UNCHANGED nonChanVars

\* A cell of the peer arrives during the handshake.
RecvCell(cell) ==
    /\ chanState \in {"VersionsSent", "VersionsReceived", "CertsReceived"}
    /\ Len(rcvd) < MaxCells
    /\ \E r \in {handshake_step(chanState, linkProto, cell)} :
        /\ chanState' = r.state
        /\ chanErr' = r.err
        /\ linkProto' = r.link
    /\ rcvd' = Append(rcvd, cell)
    /\ UNCHANGED sent
    /\ UNCHANGED nonChanVars

\* NetinfoReceived: respond with our own NETINFO; the channel is open.
SendNetinfo ==
    /\ chanState = "NetinfoReceived"
    /\ sent' = Append(sent, [cmd |-> "NETINFO", bytes |-> << >>])
    /\ chanState' = "Open"
    /\ UNCHANGED << chanErr, linkProto, rcvd >>
    /\ UNCHANGED nonChanVars

NextChannel ==
    \/ SendVersions
    \/ \E cell \in PeerCells : RecvCell(cell)
    \/ SendNetinfo

\* What the peer's cells are, whatever the channel made of them.
VersionsIntersect(cell) ==
    cell.cmd = "VERSIONS" /\ Range(cell.versions) \cap Range(LinkProtocols) # {}
CertsVerify(cell) ==
    cell.cmd = "CERTS" /\ cell.id = "good" /\ cell.tls \in {"good", "unbound"}
BindingConsistent(cell) ==
    cell.cmd = "CERTS" /\ cell.id # "absent" /\ cell.tls \notin {"unbound", "absent"}
NetinfoDecodes(cell) == cell.cmd = "NETINFO" /\ cell.body = "good"

\* The cells so far are VERSIONS, CERTS, any AUTH_CHALLENGEs and NETINFO,
\* and each passes.
HandshakeDone ==
    /\ Len(rcvd) >= 3
    /\ VersionsIntersect(rcvd[1])
    /\ CertsVerify(rcvd[2]) /\ BindingConsistent(rcvd[2])
    /\ \A i \in 3..(Len(rcvd) - 1) : rcvd[i].cmd = "AUTH_CHALLENGE"
    /\ NetinfoDecodes(rcvd[Len(rcvd)])

\* Some cell so far is not the one the handshake admits at its place, or fails.
HandshakeBroken ==
    \E i \in 1..Len(rcvd) :
        \/ i = 1 /\ ~VersionsIntersect(rcvd[i])
        \/ i = 2 /\ ~(CertsVerify(rcvd[i]) /\ BindingConsistent(rcvd[i]))
        \/ i >= 3 /\ rcvd[i].cmd # "AUTH_CHALLENGE" /\ ~NetinfoDecodes(rcvd[i])

FirstCellNotVersions == rcvd # << >> /\ rcvd[1].cmd # "VERSIONS"

\* C14: VERSIONS is the first cell in both directions: the first cell we
\* send is VERSIONS and nothing is received before it is sent; and once the
\* first cell received is anything but VERSIONS the channel is Closed with
\* a protocol error, and no step from there undoes that or reaches Open.
C14_VersionsFirst ==
    /\ [](/\ rcvd # << >> => sent # << >>
          /\ sent # << >> =>
                sent[1] = [cmd |-> "VERSIONS",
                           bytes |-> << 0, 0, VERSIONS, 0, 6, 0, 3, 0, 4, 0, 5 >>])
    /\ [](FirstCellNotVersions => chanState = "Closed" /\ chanErr = "Protocol")
    /\ [][FirstCellNotVersions =>
            FirstCellNotVersions' /\ chanState' # "Open" /\ chanErr' = chanErr]_vars

C14_Witness ==
    /\ Len(rcvd) = 1 /\ rcvd[1].cmd = "CERTS" /\ rcvd[1].id = "good" /\ rcvd[1].tls = "good"
    /\ chanState = "Closed" /\ chanErr = "Protocol"
    /\ Len(sent) = 1

Item(kwd, arg0, is_err, parses, txt) ==
    [kwd |-> kwd, arg0 |-> arg0, is_err |-> is_err, parses |-> parses, txt |-> txt]

\* The items documents are made of, by name.
ItemOf(name) ==
    CASE name = "@last-listed" -> Item("ANN_LAST_LISTED", "2020-01-27", FALSE, TRUE, << 64, 1 >>)
      [] name = "@other" -> Item("ANN_UNRECOGNIZED", "x", FALSE, TRUE, << 64, 2, 2 >>)
      [] name = "onion-key" -> Item("ONION_KEY", "", FALSE, TRUE, << 10, 11, 12 >>)
      [] name = "onion-key/bad" -> Item("ONION_KEY", "", FALSE, FALSE, << 10, 13 >>)
      [] name = "ntor-onion-key" -> Item("NTOR_ONION_KEY", "k", FALSE, TRUE, << 20, 21 >>)
      [] name = "family" -> Item("FAMILY", "f", FALSE, TRUE, << 30 >>)
      [] name = "p" -> Item("P", "accept", FALSE, TRUE, << 40, 41 >>)
      [] name = "p/bad" -> Item("P", "accept", FALSE, FALSE, << 40, 42 >>)
      [] name = "id ed25519" -> Item("ID", "ed25519", FALSE, TRUE, << 50, 51, 52 >>)
      [] name = "id rsa1024" -> Item("ID", "rsa1024", FALSE, TRUE, << 50, 53 >>)
      [] name = "unknown" -> Item("UNRECOGNIZED", "", FALSE, TRUE, << 60 >>)
      [] OTHER -> Item("UNRECOGNIZED", "", TRUE, FALSE, << 70 >>)

\* Keyword::is_annotation
is_annotation(kwd) == kwd \in {"ANN_LAST_LISTED", "ANN_UNRECOGNIZED"}

\* MICRODESC_RULES / MICRODESC_ANNOTATIONS: the keywords that may repeat
\* and those that are required.
MICRODESC_RULES_may_repeat == {"ID", "UNRECOGNIZED"}
MICRODESC_RULES_required == << "ONION_KEY", "NTOR_ONION_KEY" >>
MICRODESC_ANNOTATIONS_may_repeat == {"ANN_UNRECOGNIZED"}

RECURSIVE TxtOfItems(_, _, _)
\* The text of items lo..hi of a document.
TxtOfItems(ts, lo, hi) ==
    IF lo > hi THEN << >>
    ELSE ItemOf(ts[lo]).txt \o TxtOfItems(ts, lo + 1, hi)

\* NetDocReader::str
Reader_str(ts) == TxtOfItems(ts, 1, Len(ts))

\* The offset in the text at which item n starts: str_offset(s, kwd_str).
str_offset(ts, n) == Len(TxtOfItems(ts, 1, n - 1))
\* Item::offset_after: the offset at which item n ends.
offset_after(ts, n) == Len(TxtOfItems(ts, 1, n))

\* d::Sha256::digest
Sha256(txt) == DigestRange(txt, 1, Len(txt))

\* The keyword as the text spells it.
kwd_str(it) ==
    CASE it.kwd = "ONION_KEY" -> "onion-key"
      [] it.kwd = "NTOR_ONION_KEY" -> "ntor-onion-key"
      [] it.kwd = "FAMILY" -> "family"
      [] it.kwd = "P" -> "p"
      [] it.kwd = "P6" -> "p6"
      [] it.kwd = "ID" -> "id"
      [] it.kwd = "ANN_LAST_LISTED" -> "@last-listed"
      [] OTHER -> "<unrecognized>"

RECURSIVE pause_at_annotation_or_second_onion_key(_, _, _)
\* reader.pause_at(..) of Microdesc::parse_from_reader: the last item the
\* paused iterator yields when it is drained from item n on.
pause_at_annotation_or_second_onion_key(ts, n, first_onion_key) ==
    IF n > Len(ts) THEN n - 1
    ELSE IF ItemOf(ts[n]).is_err
    THEN pause_at_annotation_or_second_onion_key(ts, n + 1, first_onion_key)
    ELSE IF is_annotation(ItemOf(ts[n]).kwd) THEN n - 1
    ELSE IF ItemOf(ts[n]).kwd = "ONION_KEY"
    THEN IF first_onion_key
         THEN pause_at_annotation_or_second_onion_key(ts, n + 1, FALSE)
         ELSE n - 1
    ELSE pause_at_annotation_or_second_onion_key(ts, n + 1, first_onion_key)

RECURSIVE pause_at_non_annotation(_, _)
\* reader.pause_at(|item| item.is_ok_with_non_annotation())
pause_at_non_annotation(ts, n) ==
    IF n > Len(ts) THEN n - 1
    ELSE IF ~ItemOf(ts[n]).is_err /\ ~is_annotation(ItemOf(ts[n]).kwd) THEN n - 1
    ELSE pause_at_non_annotation(ts, n + 1)

SectionResult(ok, err, msg, at, pos) ==
    [ok |-> ok, err |-> err, msg |-> msg, at |-> at, pos |-> pos]

\* The items of lo..hi at which reading the section stops: an error in
\* place of an item, or a keyword that may not repeat met again.
SectionStops(ts, lo, hi, may_repeat) ==
    {k \in lo..hi :
        \/ ItemOf(ts[k]).is_err
        \/ /\ ItemOf(ts[k]).kwd \notin may_repeat
           /\ \E j \in lo..(k - 1) :
                ~ItemOf(ts[j]).is_err /\ ItemOf(ts[j]).kwd = ItemOf(ts[k]).kwd}

\* The required keywords that items lo..hi lack, by their place in the rules.
SectionLacks(ts, lo, hi, required) ==
    {r \in DOMAIN required : \A k \in lo..hi : ItemOf(ts[k]).kwd # required[r]}

\* SectionRules::parse over items lo..hi: the items are taken one by one
\* and the first that is an error or breaks the multiplicity of its
\* keyword ends the parse there; then the required keywords are looked for.
SectionRules_parse(ts, lo, hi, may_repeat, required) ==
    IF SectionStops(ts, lo, hi, may_repeat) # {}
    THEN LET k == CHOOSE x \in SectionStops(ts, lo, hi, may_repeat) :
                     \A y \in SectionStops(ts, lo, hi, may_repeat) : x <= y
         IN  SectionResult(FALSE,
                           IF ItemOf(ts[k]).is_err THEN "BadKeyword" ELSE "DuplicateToken",
                           kwd_str(ItemOf(ts[k])), Some(k), k)
    ELSE IF SectionLacks(ts, lo, hi, required) # {}
    THEN LET r == CHOOSE x \in SectionLacks(ts, lo, hi, required) :
                     \A y \in SectionLacks(ts, lo, hi, required) : x <= y
         IN  SectionResult(FALSE, "MissingToken",
                           kwd_str(Item(required[r], "", FALSE, TRUE, << >>)), None, hi)
    ELSE SectionResult(TRUE, "", "", None, hi)

\* MicrodescAnnotation::parse_from_reader, with the reader at pos items
MicrodescAnnotation_parse_from_reader(ts, pos) ==
    LET hi == pause_at_non_annotation(ts, pos + 1)
        body == SectionRules_parse(ts, pos + 1, hi, MICRODESC_ANNOTATIONS_may_repeat, << >>)
        last_listed == {k \in (pos + 1)..hi : ItemOf(ts[k]).kwd = "ANN_LAST_LISTED"}
    IN  IF ~body.ok THEN body
        ELSE IF \E k \in last_listed : ~ItemOf(ts[k]).parses
        THEN SectionResult(FALSE, "BadTime", "", Some(CHOOSE k \in last_listed : TRUE), hi)
        ELSE SectionResult(TRUE, "", "", None, hi)

MdResult(ok, err, msg, at, pos, start_pos, end_pos, sha256) ==
    [ok |-> ok, err |-> err, msg |-> msg, at |-> at, pos |-> pos,
     start_pos |-> start_pos, end_pos |-> end_pos, sha256 |-> sha256]

MdErr(err, msg, at, pos) == MdResult(FALSE, err, msg, at, pos, 0, 0, 0)

\* The first item of lo..hi with this keyword: body.required(k) / body.maybe(k).
FirstWith(ts, lo, hi, kwd) ==
    LET ks == {k \in lo..hi : ItemOf(ts[k]).kwd = kwd}
    IN  IF ks = {} THEN None ELSE Some(CHOOSE x \in ks : \A y \in ks : x <= y)

\* a find that takes the first id line whatever its type
FindIdEd25519_AnyId(ts, lo, hi) == FirstWith(ts, lo, hi, "ID")

\* body.slice(ID).iter().find(|item| item.arg(0) == Some("ed25519"))
FindIdEd25519(ts, lo, hi) ==
    LET ks == {k \in lo..hi : ItemOf(ts[k]).kwd = "ID" /\ ItemOf(ts[k]).arg0 = "ed25519"}
    IN  IF ks = {} THEN None ELSE Some(CHOOSE x \in ks : \A y \in ks : x <= y)

\* Whether the item body.maybe(kwd) gives, if any, parses.
MaybeParses(ts, lo, hi, kwd) ==
    FirstWith(ts, lo, hi, kwd) = None \/ ItemOf(ts[Unwrap(FirstWith(ts, lo, hi, kwd))]).parses

\* end_pos taken where the last item starts
md_end_pos_Before(ts, last) == str_offset(ts, last)

\* end_pos: last_item.offset_after(s)
md_end_pos(ts, last) == offset_after(ts, last)

\* start_pos: str_offset(s, first.kwd_str())
md_start_pos(ts, first) == str_offset(ts, first)

\* Microdesc::parse_from_reader, with the reader at pos items
Microdesc_parse_from_reader(ts, pos) ==
    LET lo == pos + 1
        hi == pause_at_annotation_or_second_onion_key(ts, pos + 1, TRUE)
        body == SectionRules_parse(ts, lo, hi, MICRODESC_RULES_may_repeat,
                                   MICRODESC_RULES_required)
    IN  IF ~body.ok THEN MdErr(body.err, body.msg, body.at, body.pos)
        ELSE IF ItemOf(ts[lo]).kwd # "ONION_KEY"
        THEN MdErr("WrongStartingToken", kwd_str(ItemOf(ts[lo])), Some(lo), hi)
        ELSE IF ~ItemOf(ts[Unwrap(FirstWith(ts, lo, hi, "ONION_KEY"))]).parses
        THEN MdErr("BadObjectVal", "", FirstWith(ts, lo, hi, "ONION_KEY"), hi)
        ELSE IF ~ItemOf(ts[Unwrap(FirstWith(ts, lo, hi, "NTOR_ONION_KEY"))]).parses
        THEN MdErr("BadArgument", "", FirstWith(ts, lo, hi, "NTOR_ONION_KEY"), hi)
        ELSE IF ~MaybeParses(ts, lo, hi, "FAMILY")
        THEN MdErr("BadArgument", "", FirstWith(ts, lo, hi, "FAMILY"), hi)
        ELSE IF ~MaybeParses(ts, lo, hi, "P")
        THEN MdErr("BadPolicy", "", FirstWith(ts, lo, hi, "P"), hi)
        ELSE IF ~MaybeParses(ts, lo, hi, "P6")
        THEN MdErr("BadPolicy", "", FirstWith(ts, lo, hi, "P6"), hi)
        ELSE IF FindIdEd25519(ts, lo, hi) = None
        THEN MdErr("MissingToken", "id ed25519", None, hi)
        ELSE IF ~ItemOf(ts[Unwrap(FindIdEd25519(ts, lo, hi))]).parses
        THEN MdErr("BadArgument", "", FindIdEd25519(ts, lo, hi), hi)
        ELSE MdResult(TRUE, "", "", None, hi,
                      md_start_pos(ts, lo), md_end_pos(ts, hi),
                      Sha256(SubSeq(Reader_str(ts), md_start_pos(ts, lo) + 1,
                                    md_end_pos(ts, hi))))

\* An advance that stops at annotations whether or not they are accepted
advance_to_next_microdesc_AnyAnnotation(ts, allow, pos) ==
    LET stops == {n \in pos..Len(ts) :
                    \/ n = Len(ts)
                    \/ /\ ~ItemOf(ts[n + 1]).is_err
                       /\ \/ is_annotation(ItemOf(ts[n + 1]).kwd)
                          \/ ItemOf(ts[n + 1]).kwd = "ONION_KEY"}
    IN  CHOOSE x \in stops : \A y \in stops : x <= y

RECURSIVE advance_to_next_microdesc(_, _, _)
\* advance_to_next_microdesc(reader, annotated): the reader's place after it
advance_to_next_microdesc(ts, allow, pos) ==
    IF pos >= Len(ts) THEN pos
    ELSE IF /\ ~ItemOf(ts[pos + 1]).is_err
            /\ \/ allow /\ is_annotation(ItemOf(ts[pos + 1]).kwd)
               \/ ItemOf(ts[pos + 1]).kwd = "ONION_KEY"
    THEN pos
    ELSE advance_to_next_microdesc(ts, allow, pos + 1)

\* MicrodescReader::take_annotation
MicrodescReader_take_annotation(ts, allow, pos) ==
    IF allow THEN MicrodescAnnotation_parse_from_reader(ts, pos)
    ELSE SectionResult(TRUE, "", "", None, pos)

\* MicrodescReader::take_annotated_microdesc_raw
MicrodescReader_take_annotated_microdesc_raw(ts, allow, pos) ==
    IF ~MicrodescReader_take_annotation(ts, allow, pos).ok
    THEN MdErr(MicrodescReader_take_annotation(ts, allow, pos).err,
               MicrodescReader_take_annotation(ts, allow, pos).msg,
               MicrodescReader_take_annotation(ts, allow, pos).at,
               MicrodescReader_take_annotation(ts, allow, pos).pos)
    ELSE Microdesc_parse_from_reader(ts, MicrodescReader_take_annotation(ts, allow, pos).pos)

\* What one call of next() that returned Some did: the Result, the
\* reader's place before the call, after the raw attempt and after the
\* call, and whether one item was dropped.
Taken(result, pos_orig, dropped, pos) ==
    [result |-> result, pos_orig |-> pos_orig, dropped |-> dropped, pos |-> pos]

\* MicrodescReader::take_annotated_microdesc
MicrodescReader_take_annotated_microdesc(ts, allow, pos) ==
    LET result == MicrodescReader_take_annotated_microdesc_raw(ts, allow, pos)
    IN  IF result.ok THEN Taken(result, pos, FALSE, result.pos)
        ELSE IF result.pos = pos
        THEN Taken(result, pos, TRUE,
                   advance_to_next_microdesc(ts, allow,
                        IF pos < Len(ts) THEN pos + 1 ELSE pos))
        ELSE Taken(result, pos, FALSE, advance_to_next_microdesc(ts, allow, result.pos))

\* next() without the look at the next token
MicrodescReader_next_NoPeek(ts, allow, pos) ==
    Some(MicrodescReader_take_annotated_microdesc(ts, allow, pos))

\* Iterator for MicrodescReader: next()
MicrodescReader_next(ts, allow, pos) ==
    IF pos >= Len(ts) THEN None
    ELSE Some(MicrodescReader_take_annotated_microdesc(ts, allow, pos))

\* ------------------------------------------------------------------------
\* Documents and the reading of them
\* ------------------------------------------------------------------------
MaxRecs == 3

\* The stretches of items documents are put together from: whole records,
\* records with something wrong, and single items.
Stretches ==
    {<< "onion-key", "ntor-onion-key", "id ed25519" >>,
     << "onion-key", "ntor-onion-key", "p", "id rsa1024", "id ed25519", "unknown" >>,
     << "@last-listed", "onion-key", "ntor-onion-key", "id ed25519" >>,
     << "family", "onion-key", "ntor-onion-key", "id ed25519" >>,
     << "onion-key", "ntor-onion-key", "id rsa1024" >>,
     << "onion-key", "ntor-onion-key", "p/bad", "id ed25519" >>,
     << "ntor-onion-key", "id ed25519" >>,
     << "onion-key", "ntor-onion-key", "ntor-onion-key", "id ed25519" >>,
     << "onion-key" >>,
     << "@other" >>,
     << "?" >>}

RECURSIVE Concat(_)
Concat(ss) == IF ss = << >> THEN << >> ELSE Head(ss) \o Concat(Tail(ss))

Documents == {Concat(ss) : ss \in SeqsUpTo(Stretches, MaxRecs)}

InitMdIdle ==
    /\ mdToks = << >>
    /\ annotated = FALSE
    /\ mdPos = 0
    /\ mdResults = << >>
    /\ mdDone = TRUE

\* MicrodescReader::new(s, allow)
InitMd ==
    /\ mdToks \in Documents
    /\ annotated \in BOOLEAN
    /\ mdPos = 0
    /\ mdResults = << >>
    /\ mdDone = FALSE

\* One call of next() on the reader.
MdNext ==
    /\ ~mdDone
    /\ \E r \in {MicrodescReader_next(mdToks, annotated, mdPos)} :
        IF r = None
        THEN /\ mdDone' = TRUE
             /\ UNCHANGED << mdPos, mdResults >>
        ELSE /\ mdResults' = Append(mdResults, Unwrap(r))
             /\ mdPos' = Unwrap(r).pos
             /\ UNCHANGED mdDone
    /\ UNCHANGED << mdToks, annotated >>
    /\ UNCHANGED nonMdVars

NextMd == MdNext

\* Item n + 1 of the document is where a microdescriptor may begin: an
\* onion-key, or an annotation when the reader accepts annotations.
AtRecordStart(n) ==
    /\ n < Len(mdToks)
    /\ ~ItemOf(mdToks[n + 1]).is_err
    /\ \/ ItemOf(mdToks[n + 1]).kwd = "ONION_KEY"
       \/ annotated /\ is_annotation(ItemOf(mdToks[n + 1]).kwd)

\* Where the record that begins at item lo ends: the item before the next
\* annotation, or before the second onion-key, or the last of the document.
RecordEnd(lo) ==
    LET ends == {h \in (lo - 1)..Len(mdToks) :
                    \/ h = Len(mdToks)
                    \/ /\ ~ItemOf(mdToks[h + 1]).is_err
                       /\ \/ is_annotation(ItemOf(mdToks[h + 1]).kwd)
                          \/ /\ ItemOf(mdToks[h + 1]).kwd = "ONION_KEY"
                             /\ \E k \in lo..h : ItemOf(mdToks[k]).kwd = "ONION_KEY"
                                                   /\ ~ItemOf(mdToks[k]).is_err}
    IN  CHOOSE x \in ends : \A y \in ends : x <= y

\* Where the record of a call that began at n items starts: after the
\* annotations, when the reader accepts annotations.
RecordStart(n) ==
    IF ~annotated THEN n + 1
    ELSE LET body == {k \in (n + 1)..(Len(mdToks) + 1) :
                        \/ k = Len(mdToks) + 1
                        \/ ~ItemOf(mdToks[k]).is_err /\ ~is_annotation(ItemOf(mdToks[k]).kwd)}
         IN  CHOOSE x \in body : \A y \in body : x <= y

Count(lo, hi, kwd) == Cardinality({k \in lo..hi : ItemOf(mdToks[k]).kwd = kwd})

\* The annotations n + 1 .. RecordStart(n) - 1 are well formed.
AnnotationsPass(n) ==
    /\ \A k \in (n + 1)..(RecordStart(n) - 1) :
            ~ItemOf(mdToks[k]).is_err /\ ItemOf(mdToks[k]).parses
    /\ Count(n + 1, RecordStart(n) - 1, "ANN_LAST_LISTED") <= 1

\* Items lo..hi keep to the rules of a microdescriptor section: no error
\* in place of an item, the required keywords present, and only id and
\* unknown keywords more than once.
RulesPass(lo, hi) ==
    /\ lo <= hi
    /\ \A k \in lo..hi : ~ItemOf(mdToks[k]).is_err
    /\ Count(lo, hi, "ONION_KEY") >= 1
    /\ Count(lo, hi, "NTOR_ONION_KEY") = 1
    /\ \A w \in {"FAMILY", "P", "P6"} : Count(lo, hi, w) <= 1

HasIdEd25519(lo, hi) ==
    \E k \in lo..hi : ItemOf(mdToks[k]).kwd = "ID" /\ ItemOf(mdToks[k]).arg0 = "ed25519"

\* A well-formed microdescriptor, with its annotations if any, begins
\* after the first n items.
WellFormedAt(n) ==
    /\ AnnotationsPass(n)
    /\ RecordStart(n) <= Len(mdToks)
    /\ ItemOf(mdToks[RecordStart(n)]).kwd = "ONION_KEY"
    /\ RulesPass(RecordStart(n), RecordEnd(RecordStart(n)))
    /\ \A k \in RecordStart(n)..RecordEnd(RecordStart(n)) : ItemOf(mdToks[k]).parses
    /\ HasIdEd25519(RecordStart(n), RecordEnd(RecordStart(n)))

\* C17: iteration terminates: every Some of next() leaves the reader at
\* least one item further, so there are never more results than items
\* consumed nor more items consumed than the document has; one item is
\* dropped exactly when the failing attempt consumed none; each call
\* starts where the last one ended; and next() returns None exactly once
\* no item remains, adding no result.
C17_ForwardProgress ==
    /\ [](/\ \A i \in DOMAIN mdResults :
                /\ mdResults[i].pos > mdResults[i].pos_orig
                /\ mdResults[i].pos <= Len(mdToks)
                /\ mdResults[i].pos_orig = (IF i = 1 THEN 0 ELSE mdResults[i - 1].pos)
                /\ mdResults[i].dropped <=>
                      (~mdResults[i].result.ok
                       /\ mdResults[i].result.pos = mdResults[i].pos_orig)
          /\ Len(mdResults) <= mdPos /\ mdPos <= Len(mdToks)
          /\ mdResults # << >> => mdPos = mdResults[Len(mdResults)].pos
          /\ mdDone => mdPos = Len(mdToks))
    /\ [][IF mdPos = Len(mdToks)
          THEN mdDone' /\ mdResults' = mdResults
          ELSE ~mdDone' /\ Len(mdResults') = Len(mdResults) + 1 /\ mdPos' > mdPos]_vars

C17_Witness ==
    /\ mdDone
    /\ Len(mdResults) = 3
    /\ mdResults[1].dropped
    /\ mdResults[2].result.ok
    /\ ~mdResults[3].result.ok /\ ~mdResults[3].dropped

\* wrong-start, a whole microdescriptor, wrong-id
BadGoodBad ==
    << "family", "onion-key", "ntor-onion-key", "id ed25519",
       "onion-key", "ntor-onion-key", "id ed25519",
       "onion-key", "ntor-onion-key", "id rsa1024" >>

\* C18: a failed record is one Err item, after which the reader is at the
\* first place from where the attempt stopped that is the end of input, an
\* onion-key, or, only when annotations are accepted, an annotation; a
\* well-formed microdescriptor that begins there is the next item and is Ok;
\* and wrong-start, good, wrong-id yields Err, Ok, Err.
C18_ErrorRecovery ==
    /\ \A i \in DOMAIN mdResults :
        ~mdResults[i].result.ok =>
            /\ mdResults[i].pos = Len(mdToks) \/ AtRecordStart(mdResults[i].pos)
            /\ \A n \in (IF mdResults[i].dropped THEN mdResults[i].pos_orig + 1
                         ELSE mdResults[i].result.pos)..(mdResults[i].pos - 1) :
                    ~AtRecordStart(n)
            /\ (WellFormedAt(mdResults[i].pos) /\ i < Len(mdResults)) =>
                    /\ mdResults[i + 1].result.ok
                    /\ mdResults[i + 1].result.start_pos
                         = Len(TxtOfItems(mdToks, 1, RecordStart(mdResults[i].pos) - 1))
    /\ (mdToks = BadGoodBad /\ mdDone) =>
            /\ Len(mdResults) = 3
            /\ ~mdResults[1].result.ok /\ mdResults[1].pos = 4
            /\ mdResults[2].result.ok /\ mdResults[2].pos = 7
            /\ ~mdResults[3].result.ok /\ mdResults[3].pos = 10

C18_Witness ==
    /\ mdToks = BadGoodBad /\ annotated /\ mdDone
    /\ mdResults[1].result.err = "WrongStartingToken"
    /\ mdResults[2].result.ok
    /\ mdResults[3].result.err = "MissingToken"

\* C19: for every Ok item the extent runs from the start of the onion-key
\* that is the first item of the record (after the annotations the call
\* read) to the end of the record's last item, the item before the next
\* annotation or onion-key or the end of the document; the digest is
\* SHA-256 of exactly the text of those items.
C19_DigestOfExtent ==
    \A i \in DOMAIN mdResults :
        mdResults[i].result.ok =>
            LET lo == RecordStart(mdResults[i].pos_orig)
                hi == RecordEnd(lo)
            IN  /\ ItemOf(mdToks[lo]).kwd = "ONION_KEY"
                /\ \A k \in (mdResults[i].pos_orig + 1)..(lo - 1) :
                        is_annotation(ItemOf(mdToks[k]).kwd)
                /\ \A k \in (lo + 1)..hi :
                        /\ ~is_annotation(ItemOf(mdToks[k]).kwd)
                        /\ ItemOf(mdToks[k]).kwd # "ONION_KEY"
                /\ mdResults[i].result.start_pos = Len(TxtOfItems(mdToks, 1, lo - 1))
                /\ mdResults[i].result.end_pos = Len(TxtOfItems(mdToks, 1, hi))
                /\ mdResults[i].result.sha256 = Sha256(TxtOfItems(mdToks, lo, hi))
                /\ mdResults[i].pos = hi

C19_Witness ==
    /\ mdDone /\ annotated
    /\ Len(mdResults) = 2
    /\ mdResults[1].result.ok /\ mdResults[2].result.ok
    /\ mdResults[1].result.start_pos > 0
    /\ mdResults[1].result.end_pos = mdResults[2].result.start_pos
    /\ mdResults[1].result.sha256 # mdResults[2].result.sha256

MaxCertList == 2

\* The largest u8 and the largest u16.
U8Max == 255
U16Max == 65535

\* x as u8, x as u16
as_u8(x) == x % (U8Max + 1)
as_u16(x) == x % (U16Max + 1)

\* enc_one_tor_cert: certtype:u8, len:u16, then the bytes
enc_one_tor_cert(c) ==
    write_u8(c.certtype) \o write_u16(as_u16(Len(c.cert))) \o c.cert

RECURSIVE enc_tor_certs(_, _, _)
\* for c in self.certs.iter() { enc_one_tor_cert(w, c) }, over certs[lo..hi]
enc_tor_certs(certs, lo, hi) ==
    IF lo > hi THEN << >>
    ELSE IF lo = hi THEN enc_one_tor_cert(certs[lo])
    ELSE enc_tor_certs(certs, lo, (lo + hi) \div 2)
             \o enc_tor_certs(certs, (lo + hi) \div 2 + 1, hi)

\* write_body_onto that writes the largest count it can when there are more
Certs_write_body_onto_Saturating(self) ==
    write_u8(IF Len(self.certs) > U8Max THEN U8Max ELSE Len(self.certs))
        \o enc_tor_certs(self.certs, 1, Len(self.certs))

\* Certs::write_body_onto: n:u8, then each certificate
Certs_write_body_onto(self) ==
    write_u8(as_u8(Len(self.certs))) \o enc_tor_certs(self.certs, 1, Len(self.certs))

\* take_one_tor_cert: Ok(TorCert) and where the reader stands, or Err(Truncated)
take_one_tor_cert(b, off) ==
    IF Reader_truncated(b, off, 3) THEN [ok |-> FALSE, off |-> off, cert |-> None]
    ELSE IF Reader_truncated(b, off + 3, Reader_take_u16(b, off + 1))
    THEN [ok |-> FALSE, off |-> off, cert |-> None]
    ELSE [ok |-> TRUE, off |-> off + 3 + Reader_take_u16(b, off + 1),
          cert |-> Some(TorCert(Reader_take_u8(b, off),
                                Reader_take(b, off + 3, Reader_take_u16(b, off + 1))))]

\* One turn of the loop of Certs::take_from: certs.push(take_one_tor_cert(r)?)
take_tor_certs_step(b, st) ==
    IF ~st.ok THEN st
    ELSE IF ~take_one_tor_cert(b, st.off).ok
    THEN [ok |-> FALSE, off |-> st.off, certs |-> << >>]
    ELSE [ok |-> TRUE, off |-> take_one_tor_cert(b, st.off).off,
          certs |-> Append(st.certs, Unwrap(take_one_tor_cert(b, st.off).cert))]

RECURSIVE take_tor_certs(_, _, _)
\* for _ in 0..n { certs.push(take_one_tor_cert(r)?) }: n turns from st are
\* n/2 turns followed by the other n - n/2
take_tor_certs(b, st, n) ==
    IF n = 0 THEN st
    ELSE IF n = 1 THEN take_tor_certs_step(b, st)
    ELSE CHOOSE r \in {take_tor_certs(b, half, n - n \div 2) :
                           half \in {take_tor_certs(b, st, n \div 2)}} : TRUE

\* Readable for Certs: Ok(Certs) or Err
Certs_take_from(b) ==
    IF Reader_truncated(b, 0, 1) THEN [ok |-> FALSE, certs |-> << >>]
    ELSE [ok |-> take_tor_certs(b, [ok |-> TRUE, off |-> 1, certs |-> << >>],
                                Reader_take_u8(b, 0)).ok,
          certs |-> take_tor_certs(b, [ok |-> TRUE, off |-> 1, certs |-> << >>],
                                   Reader_take_u8(b, 0)).certs]

\* --- the messages tried ---
\* len bytes, all v
Fill(len, v) == [i \in 1..len |-> v]

\* Certificates around the widest length the u16 field holds.
CertShapes ==
    { TorCert(4, Fill(0, 0)), TorCert(5, Fill(2, 7)), TorCert(7, Fill(1, 9)),
      TorCert(4, Fill(U16Max, 1)), TorCert(4, Fill(U16Max + 1, 4)),
      TorCert(5, Fill(U16Max + 3, 0)) }

\* Lists of one-byte certificates around the largest count the u8 field holds.
LongLists ==
    { [i \in 1..n |-> TorCert(5, << i % 256 >>)] :
        n \in {U8Max - 1, U8Max, U8Max + 1, U8Max + 2} }

CertsInputs ==
    UNION {[1..n -> CertShapes] : n \in 0..MaxCertList} \cup LongLists

InitCertsIdle ==
    /\ certsStage = "Idle"
    /\ certsMsg = [certs |-> << >>]
    /\ certsBody = << >>
    /\ certsRead = None

InitCerts ==
    /\ certsStage = "Built"
    /\ certsMsg \in {[certs |-> l] : l \in CertsInputs}
    /\ certsBody = << >>
    /\ certsRead = None

\* Certs::write_body_onto on the message in hand
CertsWriteBodyOnto ==
    /\ certsStage = "Built"
    /\ certsBody' = Certs_write_body_onto(certsMsg)
    /\ certsStage' = "Written"
    /\ UNCHANGED << certsMsg, certsRead >>
    /\ UNCHANGED nonCertsVars

\* Certs::take_from on the bytes written
CertsTakeFrom ==
    /\ certsStage = "Written"
    /\ certsRead' = Some(Certs_take_from(certsBody))
    /\ certsStage' = "Read"
    /\ UNCHANGED << certsMsg, certsBody >>
    /\ UNCHANGED nonCertsVars

NextCerts ==
    \/ CertsWriteBodyOnto
    \/ CertsTakeFrom

RECURSIVE CertsBytes(_, _, _)
\* How many bytes the certificates lo..hi of a list take, 3 of header each.
CertsBytes(certs, lo, hi) ==
    IF lo > hi THEN 0
    ELSE IF lo = hi THEN 3 + Len(certs[lo].cert)
    ELSE CertsBytes(certs, lo, (lo + hi) \div 2)
             + CertsBytes(certs, (lo + hi) \div 2 + 1, hi)

\* Where the fields of the i-th certificate of a list start in the body.
CertFieldAt(certs, i) == 1 + CertsBytes(certs, 1, i - 1)

\* C30: writing a Certs message and reading the bytes back gives the same
\* list of (type, bytes) exactly when the list has at most 255 certificates
\* of at most 65535 bytes each; the count written is the number of
\* certificates modulo 2^8 and each length written is the true length
\* modulo 2^16, each certificate's bytes following its length in full.
C30_CertsRoundTrip ==
    /\ certsStage \in {"Written", "Read"} =>
        /\ certsBody[1] = Len(certsMsg.certs) % 2^8
        /\ Len(certsBody) = CertFieldAt(certsMsg.certs, Len(certsMsg.certs) + 1)
        /\ \A i \in DOMAIN certsMsg.certs :
             \E at \in {CertFieldAt(certsMsg.certs, i)} :
                /\ certsBody[at + 1] = certsMsg.certs[i].certtype
                /\ certsBody[at + 2] * 2^8 + certsBody[at + 3]
                       = Len(certsMsg.certs[i].cert) % 2^16
    /\ certsStage = "Read" =>
        ((Unwrap(certsRead).ok /\ Unwrap(certsRead).certs = certsMsg.certs)
            <=> /\ Len(certsMsg.certs) <= 255
                /\ \A i \in DOMAIN certsMsg.certs :
                       Len(certsMsg.certs[i].cert) <= 65535)

\* A list of 256 certificates has been written and read back as no
\* certificate at all.
C30_Witness ==
    /\ certsStage = "Read"
    /\ Len(certsMsg.certs) = 256
    /\ certsBody[1] = 0
    /\ Unwrap(certsRead) = [ok |-> TRUE, certs |-> << >>]

\* A certificate of 65536 bytes has been written with a length of 0.
C30_WitnessLong ==
    /\ certsStage = "Read"
    /\ Len(certsMsg.certs) = 2
    /\ Len(certsMsg.certs[1].cert) = 65536
    /\ certsBody[3] = 0 /\ certsBody[4] = 0
    /\ Unwrap(certsRead).ok
    /\ Unwrap(certsRead).certs # certsMsg.certs

\* A list of 255 certificates has been read back as written.
C30_WitnessFull ==
    /\ certsStage = "Read"
    /\ Len(certsMsg.certs) = 255
    /\ Unwrap(certsRead) = [ok |-> TRUE, certs |-> certsMsg.certs]

\* ------------------------------------------------------------------------
\* tor-guardmgr: RequestId::next on its 64-bit counter (pending.rs)
\* ------------------------------------------------------------------------
MaxIdCalls == 5

IdThreads == {"t1", "t2"}

\* A u64 is four limbs of 16 bits, the most significant first.
LimbMax == 65535
u64_zero == << 0, 0, 0, 0 >>
u64_one == << 0, 0, 0, 1 >>
u64_MAX == << LimbMax, LimbMax, LimbMax, LimbMax >>

\* x < y on u64
u64_lt(x, y) ==
    \E i \in 1..4 : x[i] < y[i] /\ \A j \in 1..(i - 1) : x[j] = y[j]

\* x + 1 as AtomicU64::fetch_add leaves it: wrapping around on overflow
u64_wrapping_add_one(x) ==
    IF x[4] < LimbMax THEN << x[1], x[2], x[3], x[4] + 1 >>
    ELSE IF x[3] < LimbMax THEN << x[1], x[2], x[3] + 1, 0 >>
    ELSE IF x[2] < LimbMax THEN << x[1], x[2] + 1, 0, 0 >>
    ELSE IF x[1] < LimbMax THEN << x[1] + 1, 0, 0, 0 >>
    ELSE u64_zero

\* The counter of a fresh process, and of one that has handed out all ids
\* but the last two.
IdStarts == {u64_one, << LimbMax, LimbMax, LimbMax, LimbMax - 1 >>}

InitIdIdle ==
    /\ next_val = u64_one
    /\ idStart = u64_one
    /\ idPc = [t \in IdThreads |-> "idle"]
    /\ idGot = [t \in IdThreads |-> u64_zero]
    /\ idFetches = << >>
    /\ idOut = << >>

InitId ==
    /\ next_val \in IdStarts
    /\ idStart = next_val
    /\ idPc = [t \in IdThreads |-> "idle"]
    /\ idGot = [t \in IdThreads |-> u64_zero]
    /\ idFetches = << >>
    /\ idOut = << >>

\* let id = NEXT_VAL.fetch_add(1, Ordering::Relaxed);
RequestId_next_fetch_add(t) ==
    /\ idPc[t] = "idle"
    /\ Len(idFetches) < MaxIdCalls
    /\ idGot' = [idGot EXCEPT ![t] = next_val]
    /\ next_val' = u64_wrapping_add_one(next_val)
    /\ idFetches' = Append(idFetches, next_val)
    /\ idPc' = [idPc EXCEPT ![t] = "fetched"]
    /\ UNCHANGED << idStart, idOut >>
    /\ UNCHANGED nonIdVars

\* assert!(id != 0, ..); RequestId { id }
RequestId_next_return(t) ==
    /\ idPc[t] = "fetched"
    /\ IF idGot[t] = u64_zero
       THEN /\ idPc' = [idPc EXCEPT ![t] = "panicked"]
            /\ UNCHANGED idOut
       ELSE /\ idPc' = [idPc EXCEPT ![t] = "idle"]
            /\ idOut' = Append(idOut, idGot[t])
    /\ UNCHANGED << next_val, idStart, idGot, idFetches >>
    /\ UNCHANGED nonIdVars

NextId ==
    \/ \E t \in IdThreads : RequestId_next_fetch_add(t)
    \/ \E t \in IdThreads : RequestId_next_return(t)

\* An id that a call made before the run started has returned.
InUseAtStart(id) == id # u64_zero /\ u64_lt(id, idStart)

\* C22: RequestId::next never returns an id that an earlier call returned,
\* whichever threads call it; the ids are handed out in the order of the
\* atomic increments, each one more than the one before; a call that finds
\* the counter exhausted panics and returns no id.
C22_UniqueIds ==
    /\ \A i \in DOMAIN idOut :
          /\ ~InUseAtStart(idOut[i])
          /\ \A j \in DOMAIN idOut : i # j => idOut[i] # idOut[j]
    /\ idFetches # << >> => idFetches[1] = idStart
    /\ \A i \in 1..(Len(idFetches) - 1) :
          idFetches[i + 1] = u64_wrapping_add_one(idFetches[i])
    /\ \A i \in DOMAIN idOut : idOut[i] # u64_zero
    /\ \A t \in IdThreads : idPc[t] = "panicked" => idGot[t] = u64_zero

\* The ids are never-before-used for as long as no call has found the
\* counter exhausted.
C22_UniqueUntilExhausted ==
    (\A i \in DOMAIN idFetches : idFetches[i] # u64_zero) =>
        \A i \in DOMAIN idOut :
          /\ ~InUseAtStart(idOut[i])
          /\ \A j \in DOMAIN idOut : i # j => idOut[i] # idOut[j]

\* A thread has panicked on the exhausted counter and another call has then
\* returned the id 1.
C22_Reused ==
    /\ \E t \in IdThreads : idPc[t] = "panicked"
    /\ \E i \in DOMAIN idOut : idOut[i] = u64_one
    /\ idStart # u64_one

\* ------------------------------------------------------------------------
\* tor-keymgr: ArtiPath and ArtiPathComponent (key_specifier.rs)
\* ------------------------------------------------------------------------
MaxPathLen == 4

PATH_SEP == "/"
MIDDLE_ONLY == << "-", "_", "." >>

\* char::is_alphanumeric on the characters tried: the two letters and the
\* digit are; the punctuation is not.
is_alphanumeric(c) == c \in {"a", "B", "7"}

\* The characters tried.
PathChars == {"a", "B", "7", "-", "_", ".", "/", "!"}

\* ArtiPathComponent::is_allowed_char
ArtiPathComponent_is_allowed_char(c) ==
    is_alphanumeric(c) \/ c = "_" \/ c = "-" \/ c = "."

\* str::contains("..")
contains_dotdot(inner) ==
    \E i \in 1..(Len(inner) - 1) : inner[i] = "." /\ inner[i + 1] = "."

\* validate_str without the check for "..": TRUE for Ok(()), FALSE for Err
ArtiPathComponent_validate_str_AllowDotDot(inner) ==
    /\ ~(\/ inner = << >>
         \/ \E i \in DOMAIN inner : ~ArtiPathComponent_is_allowed_char(inner[i]))
    /\ \A k \in DOMAIN MIDDLE_ONLY :
          ~(inner[1] = MIDDLE_ONLY[k] \/ inner[Len(inner)] = MIDDLE_ONLY[k])

\* ArtiPathComponent::validate_str: TRUE for Ok(()), FALSE for Err
ArtiPathComponent_validate_str(inner) ==
    /\ ~(\/ inner = << >>
         \/ \E i \in DOMAIN inner : ~ArtiPathComponent_is_allowed_char(inner[i])
         \/ contains_dotdot(inner))
    /\ \A k \in DOMAIN MIDDLE_ONLY :
          ~(inner[1] = MIDDLE_ONLY[k] \/ inner[Len(inner)] = MIDDLE_ONLY[k])

RECURSIVE str_split(_, _, _)
\* inner.split(PATH_SEP) from offset from on, cur being the piece begun
str_split(inner, from, cur) ==
    IF from > Len(inner) THEN << cur >>
    ELSE IF inner[from] = PATH_SEP
    THEN << cur >> \o str_split(inner, from + 1, << >>)
    ELSE str_split(inner, from + 1, Append(cur, inner[from]))

\* Ok(value) or Err
PathResult(ok, inner) == [ok |-> ok, inner |-> IF ok THEN inner ELSE << >>]

\* ArtiPath::new
ArtiPath_new(inner) ==
    IF \E k \in DOMAIN str_split(inner, 1, << >>) :
          ~ArtiPathComponent_validate_str(str_split(inner, 1, << >>)[k])
    THEN PathResult(FALSE, inner)
    ELSE PathResult(TRUE, inner)

\* ArtiPathComponent::new
ArtiPathComponent_new(inner) ==
    PathResult(ArtiPathComponent_validate_str(inner), inner)

PathInputs == UNION {[1..n -> PathChars] : n \in 0..MaxPathLen}

InitPathIdle ==
    /\ pathIn = << >>
    /\ pathRes = Some(PathResult(FALSE, << >>))
    /\ compRes = Some(PathResult(FALSE, << >>))

InitPath ==
    /\ pathIn \in PathInputs
    /\ pathRes = None
    /\ compRes = None

ArtiPathNew ==
    /\ pathRes = None
    /\ pathRes' = Some(ArtiPath_new(pathIn))
    /\ UNCHANGED << pathIn, compRes >>
    /\ UNCHANGED nonPathVars

ArtiPathComponentNew ==
    /\ compRes = None
    /\ compRes' = Some(ArtiPathComponent_new(pathIn))
    /\ UNCHANGED << pathIn, pathRes >>
    /\ UNCHANGED nonPathVars

NextPath ==
    \/ ArtiPathNew
    \/ ArtiPathComponentNew

\* A string that is a nonempty '/'-separated sequence of nonempty
\* components of alphanumerics and '-', '_', '.', none of the three at
\* either end of a component and no ".." anywhere.
WellFormedPath(s) ==
    /\ s # << >>
    /\ s[1] # "/" /\ s[Len(s)] # "/"
    /\ \A i \in 1..(Len(s) - 1) : ~(s[i] = "/" /\ s[i + 1] = "/")
    /\ \A i \in DOMAIN s : s[i] \in {"a", "B", "7", "-", "_", ".", "/"}
    /\ \A i \in DOMAIN s :
          s[i] \in {"-", "_", "."} =>
              /\ i # 1 /\ i # Len(s)
              /\ s[i - 1] # "/" /\ s[i + 1] # "/"
    /\ \A i \in 1..(Len(s) - 1) : ~(s[i] = "." /\ s[i + 1] = ".")

\* C21: ArtiPath::new(s) returns Ok, holding s unchanged, exactly when s is
\* a nonempty '/'-separated sequence of nonempty components made of
\* alphanumerics and '-', '_', '.', with none of those three first or last
\* in a component and no ".." anywhere; ArtiPathComponent::new accepts the
\* same strings but those that contain '/'.
C21_ArtiPathValidation ==
    /\ IsSome(pathRes) =>
          /\ Unwrap(pathRes).ok <=> WellFormedPath(pathIn)
          /\ Unwrap(pathRes).ok => Unwrap(pathRes).inner = pathIn
    /\ IsSome(compRes) =>
          /\ Unwrap(compRes).ok <=>
                 (WellFormedPath(pathIn) /\ \A i \in DOMAIN pathIn : pathIn[i] # "/")
          /\ Unwrap(compRes).ok => Unwrap(compRes).inner = pathIn

\* "a/B7" is an ArtiPath and no ArtiPathComponent.
C21_Witness ==
    /\ pathIn = << "a", "/", "B", "7" >>
    /\ pathRes = Some(PathResult(TRUE, pathIn))
    /\ compRes = Some(PathResult(FALSE, pathIn))

\* "a..a" is refused by both.
C21_WitnessDotDot ==
    /\ pathIn = << "a", ".", ".", "a" >>
    /\ IsSome(pathRes) /\ ~Unwrap(pathRes).ok
    /\ IsSome(compRes) /\ ~Unwrap(compRes).ok

\* ------------------------------------------------------------------------
\* tor-dirmgr: DownloadSchedule and its builder (retry.rs)
\* ------------------------------------------------------------------------
\* The values the setters are tried with: u32 attempts, u8 parallelism,
\* delays in milliseconds.
AttemptsSet == {0, 1, 3, 128}
ParallelismSet == {0, 1, 4, 255}
DelaySet == {0, 1000, 5000}

\* DownloadScheduleBuilder
DownloadScheduleBuilder(attempts, initial_delay, parallelism) ==
    [attempts |-> attempts, initial_delay |-> initial_delay, parallelism |-> parallelism]

\* DownloadScheduleBuilder::default()
DownloadSchedule_builder == DownloadScheduleBuilder(None, None, None)

\* Option::unwrap_or, Option::get_or_insert
unwrap_or(opt, default) == IF IsSome(opt) THEN Unwrap(opt) ELSE default
get_or_insert(opt, v) == IF IsSome(opt) THEN opt ELSE Some(v)

\* Ok(NZ) or Err(ConfigBuildError::Invalid { field, .. })
NonZeroResult(ok, value, field) ==
    [ok |-> ok, value |-> IF ok THEN value ELSE 0, field |-> IF ok THEN "" ELSE field]

\* build_nonzero that falls back on the default when given zero
build_nonzero_ZeroAsDefault(field_spec, default, field) ==
    IF unwrap_or(field_spec, default) # 0
    THEN NonZeroResult(TRUE, unwrap_or(field_spec, default), field)
    ELSE NonZeroResult(TRUE, default, field)

\* build_nonzero: spec.unwrap_or(default).try_into(), which fails on zero
build_nonzero(field_spec, default, field) ==
    IF unwrap_or(field_spec, default) # 0
    THEN NonZeroResult(TRUE, unwrap_or(field_spec, default), field)
    ELSE NonZeroResult(FALSE, 0, field)

\* Ok(DownloadSchedule) or Err(ConfigBuildError)
ScheduleResult(ok, attempts, initial_delay, parallelism, field) ==
    [ok |-> ok, attempts |-> attempts, initial_delay |-> initial_delay,
     parallelism |-> parallelism, field |-> field]

\* DownloadScheduleBuilder::build, as derive_builder generates it: the
\* fields in the order of the struct, each `?` returning its error
DownloadScheduleBuilder_build(self) ==
    IF ~build_nonzero(self.attempts, 3, "attempts").ok
    THEN ScheduleResult(FALSE, 0, 0, 0, build_nonzero(self.attempts, 3, "attempts").field)
    ELSE IF ~build_nonzero(self.parallelism, 1, "parallelism").ok
    THEN ScheduleResult(FALSE, 0, 0, 0,
                        build_nonzero(self.parallelism, 1, "parallelism").field)
    ELSE ScheduleResult(TRUE, build_nonzero(self.attempts, 3, "attempts").value,
                        unwrap_or(self.initial_delay, 1000),
                        build_nonzero(self.parallelism, 1, "parallelism").value, "")

\* DownloadScheduleBuilder::build_retry_bootstrap
DownloadScheduleBuilder_build_retry_bootstrap(self) ==
    DownloadScheduleBuilder_build(
        DownloadScheduleBuilder(get_or_insert(self.attempts, 128),
                                get_or_insert(self.initial_delay, 1000),
                                get_or_insert(self.parallelism, 1)))

\* DownloadScheduleBuilder::build_retry_microdescs
DownloadScheduleBuilder_build_retry_microdescs(self) ==
    DownloadScheduleBuilder_build(
        DownloadScheduleBuilder(get_or_insert(self.attempts, 3),
                                get_or_insert(self.initial_delay, 1000),
                                get_or_insert(self.parallelism, 4)))

\* DownloadSchedule::n_attempts, DownloadSchedule::parallelism
DownloadSchedule_n_attempts(self) == self.attempts
DownloadSchedule_parallelism(self) == self.parallelism

InitRetryIdle ==
    /\ dlBld = DownloadSchedule_builder
    /\ dlBuilt = None

InitRetry == InitRetryIdle

\* .attempts(v)
SetAttempts(v) ==
    /\ dlBld' = [dlBld EXCEPT !.attempts = Some(v)]
    /\ dlBuilt' = None
    /\ UNCHANGED nonRetryVars

\* .initial_delay(d)
SetInitialDelay(d) ==
    /\ dlBld' = [dlBld EXCEPT !.initial_delay = Some(d)]
    /\ dlBuilt' = None
    /\ UNCHANGED nonRetryVars

\* .parallelism(v)
SetParallelism(v) ==
    /\ dlBld' = [dlBld EXCEPT !.parallelism = Some(v)]
    /\ dlBuilt' = None
    /\ UNCHANGED nonRetryVars

\* .build()
Build ==
    /\ dlBuilt' = Some([how |-> "build", res |-> DownloadScheduleBuilder_build(dlBld)])
    /\ UNCHANGED dlBld
    /\ UNCHANGED nonRetryVars

\* .build_retry_bootstrap()
BuildRetryBootstrap ==
    /\ dlBuilt' = Some([how |-> "build_retry_bootstrap",
                        res |-> DownloadScheduleBuilder_build_retry_bootstrap(dlBld)])
    /\ UNCHANGED dlBld
    /\ UNCHANGED nonRetryVars

\* .build_retry_microdescs()
BuildRetryMicrodescs ==
    /\ dlBuilt' = Some([how |-> "build_retry_microdescs",
                        res |-> DownloadScheduleBuilder_build_retry_microdescs(dlBld)])
    /\ UNCHANGED dlBld
    /\ UNCHANGED nonRetryVars

NextRetry ==
    \/ \E v \in AttemptsSet : SetAttempts(v)
    \/ \E d \in DelaySet : SetInitialDelay(d)
    \/ \E v \in ParallelismSet : SetParallelism(v)
    \/ Build
    \/ BuildRetryBootstrap
    \/ BuildRetryMicrodescs

\* C27: a build with attempts = 0 or parallelism = 0 fails with a
\* configuration error that names the field, and only such a build fails,
\* so every schedule built has n_attempts() >= 1 and parallelism() >= 1;
\* build() gives a field that was not set its default: 3 attempts,
\* parallelism 1, an initial delay of 1000 ms.
C27_NonZeroSchedule ==
    IsSome(dlBuilt) =>
        /\ Unwrap(dlBuilt).res.ok <=>
               (dlBld.attempts # Some(0) /\ dlBld.parallelism # Some(0))
        /\ ~Unwrap(dlBuilt).res.ok =>
               /\ Unwrap(dlBuilt).res.field \in {"attempts", "parallelism"}
               /\ Unwrap(dlBuilt).res.field = "attempts" => dlBld.attempts = Some(0)
               /\ Unwrap(dlBuilt).res.field = "parallelism" => dlBld.parallelism = Some(0)
        /\ Unwrap(dlBuilt).res.ok =>
               /\ DownloadSchedule_n_attempts(Unwrap(dlBuilt).res) >= 1
               /\ DownloadSchedule_parallelism(Unwrap(dlBuilt).res) >= 1
               /\ IsSome(dlBld.attempts) =>
                      DownloadSchedule_n_attempts(Unwrap(dlBuilt).res) = Unwrap(dlBld.attempts)
               /\ IsSome(dlBld.parallelism) =>
                      DownloadSchedule_parallelism(Unwrap(dlBuilt).res)
                          = Unwrap(dlBld.parallelism)
               /\ IsSome(dlBld.initial_delay) =>
                      Unwrap(dlBuilt).res.initial_delay = Unwrap(dlBld.initial_delay)
        /\ (Unwrap(dlBuilt).res.ok /\ Unwrap(dlBuilt).how = "build") =>
               /\ dlBld.attempts = None =>
                      DownloadSchedule_n_attempts(Unwrap(dlBuilt).res) = 3
               /\ dlBld.parallelism = None =>
                      DownloadSchedule_parallelism(Unwrap(dlBuilt).res) = 1
               /\ dlBld.initial_delay = None =>
                      Unwrap(dlBuilt).res.initial_delay = 1000

\* A builder given parallelism 0 and nothing else has failed to build,
\* naming parallelism.
C27_Witness ==
    /\ dlBld = DownloadScheduleBuilder(None, None, Some(0))
    /\ IsSome(dlBuilt)
    /\ Unwrap(dlBuilt).how = "build"
    /\ ~Unwrap(dlBuilt).res.ok
    /\ Unwrap(dlBuilt).res.field = "parallelism"

\* The default schedule has been built.
C27_WitnessDefault ==
    /\ dlBld = DownloadSchedule_builder
    /\ dlBuilt = Some([how |-> "build", res |-> ScheduleResult(TRUE, 3, 1000, 1, "")])

\* ------------------------------------------------------------------------
\* tor-log-ratelim: the installed runtime and RateLim (limiter.rs)
\* ------------------------------------------------------------------------
MaxInstalls == 3
MaxUnflushed == 2

InstallThreads == {"i1", "i2"}
Runtimes == {"rtA", "rtB"}

\* OnceCell::set that stores the value whether or not one is there
OnceCell_set_Replace(cell, v) == [cell |-> Some(v), ok |-> TRUE]

\* OnceCell::set: stores v and returns Ok when empty, else keeps the value
\* and returns Err
OnceCell_set(cell, v) ==
    IF cell = None THEN [cell |-> Some(v), ok |-> TRUE]
    ELSE [cell |-> cell, ok |-> FALSE]

\* rt_support(): the installed runtime, if there is one
rt_support == RUNTIME_SUPPORT

\* runtime_installed()
runtime_installed == IsSome(RUNTIME_SUPPORT)

\* timeout_sequence(), in minutes: the k-th duration
timeout_sequence(k) ==
    IF k <= 7 THEN << 5, 30, 30, 60, 60, 4 * 60, 4 * 60 >>[k] ELSE 24 * 60

\* RESET_AFTER_DORMANT_FOR, in minutes
RESET_AFTER_DORMANT_FOR == 4 * 60

\* A run task at the start of its k-th sleep.
RunTask(k, dormant_for_interval) ==
    [k |-> k, dormant_for_interval |-> dormant_for_interval]

InitRatelim ==
    /\ RUNTIME_SUPPORT = None
    /\ instPc = [t \in InstallThreads |-> "idle"]
    /\ instRt = [t \in InstallThreads |-> "rtA"]
    /\ installLog = << >>
    /\ loggable = 0
    /\ task_running = FALSE
    /\ runTasks = << >>
    /\ spawnFailed = 0

\* install_runtime: let rt = Box::new(runtime);
InstallRuntime_box(t, runtime) ==
    /\ instPc[t] = "idle"
    /\ Len(installLog) + Cardinality({u \in InstallThreads : instPc[u] = "boxed"})
           < MaxInstalls
    /\ instPc' = [instPc EXCEPT ![t] = "boxed"]
    /\ instRt' = [instRt EXCEPT ![t] = runtime]
    /\ UNCHANGED << RUNTIME_SUPPORT, installLog, loggable, task_running, runTasks,
                    spawnFailed >>
    /\ UNCHANGED nonRatelimVars

\* install_runtime: RUNTIME_SUPPORT.set(rt).map_err(|_| DuplicateCall)
InstallRuntime_set(t) ==
    /\ instPc[t] = "boxed"
    /\ RUNTIME_SUPPORT' = OnceCell_set(RUNTIME_SUPPORT, instRt[t]).cell
    /\ installLog' = Append(installLog,
           [rt |-> instRt[t],
            res |-> IF OnceCell_set(RUNTIME_SUPPORT, instRt[t]).ok
                    THEN "Ok" ELSE "DuplicateCall"])
    /\ instPc' = [instPc EXCEPT ![t] = "idle"]
    /\ UNCHANGED << instRt, loggable, task_running, runTasks, spawnFailed >>
    /\ UNCHANGED nonRatelimVars

\* RateLim::event(f), the whole of event_impl under the lock; spawn_ok is
\* whether rt.spawn succeeds when it is called
Event(spawn_ok) ==
    /\ loggable < MaxUnflushed
    /\ IF task_running
       THEN /\ loggable' = loggable + 1
            /\ UNCHANGED << task_running, runTasks, spawnFailed >>
       ELSE IF IsSome(rt_support)
       THEN /\ task_running' = TRUE
            /\ IF spawn_ok
               THEN /\ runTasks' = Append(runTasks, RunTask(1, None))
                    /\ loggable' = loggable + 1
                    /\ UNCHANGED spawnFailed
               ELSE /\ spawnFailed' = spawnFailed + 1
                    /\ loggable' = 0
                    /\ UNCHANGED runTasks
       ELSE /\ spawn_ok
            /\ loggable' = 0
            /\ UNCHANGED << task_running, runTasks, spawnFailed >>
    /\ UNCHANGED << RUNTIME_SUPPORT, instPc, instRt, installLog >>
    /\ UNCHANGED nonRatelimVars

\* run: one turn of the loop, from the end of the sleep to the next sleep or
\* the return; activity is what Loggable::flush returns
Run(i, activity) ==
    /\ i \in DOMAIN runTasks
    /\ loggable' = 0
    /\ IF activity = "Dormant"
       THEN IF unwrap_or(runTasks[i].dormant_for_interval, 0)
                   + timeout_sequence(runTasks[i].k) >= RESET_AFTER_DORMANT_FOR
            THEN /\ task_running' = FALSE
                 /\ runTasks' = [j \in 1..(Len(runTasks) - 1) |->
                                    IF j < i THEN runTasks[j] ELSE runTasks[j + 1]]
            ELSE /\ runTasks' = [runTasks EXCEPT ![i] =
                        RunTask(IF runTasks[i].k <= 7 THEN runTasks[i].k + 1 ELSE 8,
                                Some(unwrap_or(runTasks[i].dormant_for_interval, 0)
                                         + timeout_sequence(runTasks[i].k)))]
                 /\ UNCHANGED task_running
       ELSE /\ runTasks' = [runTasks EXCEPT ![i] =
                   RunTask(IF runTasks[i].k <= 7 THEN runTasks[i].k + 1 ELSE 8, None)]
            /\ UNCHANGED task_running
    /\ UNCHANGED << RUNTIME_SUPPORT, instPc, instRt, installLog, spawnFailed >>
    /\ UNCHANGED nonRatelimVars

NextRatelim ==
    \/ \E t \in InstallThreads, runtime \in Runtimes : InstallRuntime_box(t, runtime)
    \/ \E t \in InstallThreads : InstallRuntime_set(t)
    \/ \E spawn_ok \in BOOLEAN : Event(spawn_ok)
    \/ \E i \in DOMAIN runTasks, activity \in {"Active", "Dormant"} : Run(i, activity)

\* C23: the global runtime is set at most once: whatever calls of
\* install_runtime are made, from whichever threads, the first of them
\* returns Ok and its runtime is the one installed, every later call
\* returns DuplicateCall, and the runtime installed never changes.
C23_InstallOnce ==
    /\ installLog = << >> => ~runtime_installed
    /\ installLog # << >> =>
          /\ rt_support = Some(installLog[1].rt)
          /\ installLog[1].res = "Ok"
          /\ \A i \in 2..Len(installLog) : installLog[i].res = "DuplicateCall"

\* Two threads have raced to install different runtimes and a third call
\* has followed.
C23_Witness ==
    /\ Len(installLog) = 3
    /\ installLog[1].rt = "rtB" /\ installLog[2].rt = "rtA"
    /\ installLog[2].res = "DuplicateCall"
    /\ rt_support = Some("rtB")

\* C24: every event's state is reported: when event returns, the state has
\* been flushed, or a run task is there that will flush it after its
\* timeout; also for the events that follow a failed spawn.
C24_EventsReported ==
    loggable > 0 => runTasks # << >>

\* An event that followed a failed spawn is left with nothing to flush it.
C24_Unreported ==
    /\ spawnFailed = 1
    /\ loggable > 0
    /\ runTasks = << >>
    /\ task_running

\* Events are reported for as long as no spawn has failed.
C24_ReportedUnlessSpawnFailed ==
    spawnFailed = 0 => (loggable > 0 => runTasks # << >>)

\* C29: task_running is true exactly when one run task of the RateLim has
\* been spawned and has not exited, and there are never two.
C29_TaskRunningExact ==
    /\ Len(runTasks) <= 1
    /\ task_running <=> Len(runTasks) = 1

\* task_running is true with no run task: the spawn has failed.
C29_Stuck ==
    /\ task_running
    /\ runTasks = << >>
    /\ spawnFailed > 0

\* task_running tells of the run task for as long as no spawn has failed.
C29_ExactUnlessSpawnFailed ==
    /\ Len(runTasks) <= 1
    /\ spawnFailed = 0 => (task_running <=> Len(runTasks) = 1)

\* ------------------------------------------------------------------------
\* tor-guardmgr: drawing a guard sample from a NetDir (sample/candidate.rs)
\* ------------------------------------------------------------------------
MaxSampleN == 3

\* A relay of the directory: its two identities, its flags and its weight
\* in the Guard role.
Relay(ed, rsa, flagged_guard, dir_cache, weight) ==
    [ed |-> ed, rsa |-> rsa, is_flagged_guard |-> flagged_guard,
     is_dir_cache |-> dir_cache, weight |-> weight]

\* The directories tried: three relays that are guards and directory
\* caches, one that is no directory cache and one that is no guard.
NetDirs ==
    { << Relay("e1", "r1", TRUE, TRUE, 3), Relay("e2", "r2", TRUE, TRUE, 4),
         Relay("e3", "r3", TRUE, TRUE, 2), Relay("e4", "r4", TRUE, FALSE, 6),
         Relay("e5", "r5", FALSE, TRUE, 5) >>,
      << Relay("e1", "r1", TRUE, TRUE, 1), Relay("e2", "r2", TRUE, TRUE, 0),
         Relay("e3", "r3", TRUE, TRUE, 7), Relay("e4", "r4", TRUE, FALSE, 9),
         Relay("e5", "r5", FALSE, TRUE, 1) >> }

\* The identities of an entry of a ByRelayIds: either may be missing.
RelayIds(ed, rsa) == [ed |-> ed, rsa |-> rsa]

\* ByRelayIds::all_overlapping: the entries that share an identity with relay
all_overlapping(self, relay) ==
    {e \in self : e.ed = Some(relay.ed) \/ e.rsa = Some(relay.rsa)}

\* GuardFilter::permits
GuardFilter_permits(filter, relay) == relay.rsa \in filter

\* NetDir::weight_by_rsa_id in the Guard role
NetDir_weight_by_rsa_id(self, rsa) ==
    IF \E i \in DOMAIN self : self[i].rsa = rsa
    THEN Some(self[CHOOSE i \in DOMAIN self : self[i].rsa = rsa].weight)
    ELSE None

RECURSIVE NetDir_total_weight(_, _, _)
\* NetDir::total_weight in the Guard role over the relays can_use holds of
\* (given as the set of those relays), from the i-th on
NetDir_total_weight(self, can_use, i) ==
    IF i > Len(self) THEN 0
    ELSE (IF self[i] \in can_use THEN self[i].weight ELSE 0)
             + NetDir_total_weight(self, can_use, i + 1)

\* RelayWeight::ratio: the weight times a fraction num/den, None when the
\* product is negative
RelayWeight_ratio(self, frac) ==
    IF frac[1] < 0 THEN None ELSE Some((self * frac[1]) \div frac[2])

RECURSIVE sum_weights(_, _)
\* sample.values().filter_map(weight_by_rsa_id(guard.rsa_identity()?)).sum()
sum_weights(self, sample) ==
    IF sample = {} THEN 0
    ELSE LET guard == CHOOSE g \in sample : TRUE
         IN  (IF IsSome(guard.rsa) /\ IsSome(NetDir_weight_by_rsa_id(self, Unwrap(guard.rsa)))
              THEN Unwrap(NetDir_weight_by_rsa_id(self, Unwrap(guard.rsa)))
              ELSE 0)
                 + sum_weights(self, sample \ {guard})

WeightThreshold(current_weight, maximum_weight) ==
    [current_weight |-> current_weight, maximum_weight |-> maximum_weight]

\* weight_threshold that takes the fraction of all the guard-flagged weight
NetDir_weight_threshold_AnyGuard(self, sample, params) ==
    WeightThreshold(
        sum_weights(self, sample),
        unwrap_or(RelayWeight_ratio(
                      NetDir_total_weight(self, {r \in Range(self) : r.is_flagged_guard}, 1),
                      params.max_sample_bw_fraction),
                  NetDir_total_weight(self, {r \in Range(self) : r.is_flagged_guard}, 1)))

\* NetDir::weight_threshold
NetDir_weight_threshold(self, sample, params) ==
    WeightThreshold(
        sum_weights(self, sample),
        unwrap_or(RelayWeight_ratio(
                      NetDir_total_weight(self,
                          {r \in Range(self) : r.is_flagged_guard /\ r.is_dir_cache}, 1),
                      params.max_sample_bw_fraction),
                  NetDir_total_weight(self,
                      {r \in Range(self) : r.is_flagged_guard /\ r.is_dir_cache}, 1)))

\* NetDir::pick_n_relays: up to n different relays that can_use holds of
\* (given as the set of those relays), in the order the weighted draw gives
\* them; every order and number may come
NetDir_pick_n_relays(self, n, can_use) ==
    {s \in SeqsUpTo({i \in DOMAIN self : self[i] \in can_use}, n) :
        \A i, j \in DOMAIN s : i # j => s[i] # s[j]}

\* The closure sample passes to pick_n_relays, without the look at pre_existing
NetDir_sample_usable_AnyIdentity(relay, pre_existing, filter) ==
    /\ GuardFilter_permits(filter, relay)
    /\ relay.is_flagged_guard
    /\ relay.is_dir_cache

\* The closure sample passes to pick_n_relays
NetDir_sample_usable(relay, pre_existing, filter) ==
    /\ GuardFilter_permits(filter, relay)
    /\ relay.is_flagged_guard
    /\ relay.is_dir_cache
    /\ all_overlapping(pre_existing, relay) = {}

\* NetDir::sample: the results it may return, each a list of
\* (OwnedChanTarget, RelayWeight)
NetDir_sample(self, pre_existing, filter, n) ==
    {[k \in DOMAIN picks |->
         [target |-> RelayIds(Some(self[picks[k]].ed), Some(self[picks[k]].rsa)),
          weight |-> unwrap_or(NetDir_weight_by_rsa_id(self, self[picks[k]].rsa), 0)]] :
       picks \in NetDir_pick_n_relays(self, n,
                     {relay \in Range(self) :
                          NetDir_sample_usable(relay, pre_existing, filter)})}

RECURSIVE add_candidates(_, _, _, _, _)
\* The sample after the candidates from the i-th on are added, one by one,
\* until the weight in use reaches the maximum or the sample is full.
add_candidates(candidates, i, sample, current_weight, params_max) ==
    IF i > Len(candidates) THEN sample
    ELSE IF current_weight >= params_max[1] THEN sample
    ELSE IF Cardinality(sample) >= params_max[2] THEN sample
    ELSE add_candidates(candidates, i + 1, sample \cup {candidates[i].target},
                        current_weight + candidates[i].weight, params_max)

\* What is tried: filters, parameters, samples given to Universe::sample.
GuardFilters == {{"r1", "r2", "r3", "r4", "r5"}, {"r1", "r3", "r4"}}

GuardParams(frac, min_filtered_sample_size, max_sample_size) ==
    [max_sample_bw_fraction |-> frac,
     min_filtered_sample_size |-> min_filtered_sample_size,
     max_sample_size |-> max_sample_size]

GuardParamsSet ==
    {GuardParams(frac, lo, MaxSampleN) :
        frac \in {<< 1, 5 >>, << 1, 2 >>, << -1, 5 >>}, lo \in 1..MaxSampleN}

PreExistingSet ==
    { {}, {RelayIds(Some("e2"), None)}, {RelayIds(None, Some("r3"))},
      {RelayIds(Some("e9"), Some("r9")), RelayIds(Some("e1"), Some("r2"))} }

InitSampleIdle ==
    /\ netdir = << >>
    /\ guardFilter = {}
    /\ guardParams = GuardParams(<< 1, 5 >>, 1, 1)
    /\ sampleGuards = {}
    /\ lastSample = None

InitSample ==
    /\ netdir \in NetDirs
    /\ guardFilter \in GuardFilters
    /\ guardParams \in GuardParamsSet
    /\ sampleGuards = {}
    /\ lastSample = None

\* Universe::sample(pre_existing, filter, n) on the directory
UniverseSample(pre_existing, n) ==
    /\ \E result \in NetDir_sample(netdir, pre_existing, guardFilter, n) :
          lastSample' = Some([pre_existing |-> pre_existing, n |-> n, result |-> result])
    /\ UNCHANGED << netdir, guardFilter, guardParams, sampleGuards >>
    /\ UNCHANGED nonSampleVars

\* replace_guards: extend the sample while it is below its minimum count,
\* within the maximum size and the weight cap
ExtendSample ==
    /\ Cardinality(sampleGuards) < guardParams.min_filtered_sample_size
    /\ Cardinality(sampleGuards) < guardParams.max_sample_size
    /\ \E threshold \in {NetDir_weight_threshold(netdir, sampleGuards, guardParams)} :
          /\ threshold.current_weight < threshold.maximum_weight
          /\ \E n \in {Min({guardParams.min_filtered_sample_size - Cardinality(sampleGuards),
                            guardParams.max_sample_size - Cardinality(sampleGuards)})} :
               \E candidates \in NetDir_sample(netdir, sampleGuards, guardFilter, n) :
                  /\ lastSample' = Some([pre_existing |-> sampleGuards, n |-> n,
                                         result |-> candidates])
                  /\ sampleGuards' =
                         add_candidates(candidates, 1, sampleGuards,
                                        threshold.current_weight,
                                        << threshold.maximum_weight,
                                           guardParams.max_sample_size >>)
    /\ UNCHANGED << netdir, guardFilter, guardParams >>
    /\ UNCHANGED nonSampleVars

\* A guard is retired from the sample.
RemoveGuard(g) ==
    /\ g \in sampleGuards
    /\ sampleGuards' = sampleGuards \ {g}
    /\ UNCHANGED << netdir, guardFilter, guardParams, lastSample >>
    /\ UNCHANGED nonSampleVars

NextSample ==
    \/ \E pre_existing \in PreExistingSet, n \in 0..MaxSampleN :
          UniverseSample(pre_existing, n)
    \/ ExtendSample
    \/ \E g \in sampleGuards : RemoveGuard(g)

\* The relay of the directory a candidate stands for.
RelayOf(target) == netdir[CHOOSE i \in DOMAIN netdir : netdir[i].rsa = Unwrap(target.rsa)]

\* C25: Universe::sample on a NetDir returns at most n candidates, each
\* permitted by the filter, flagged as guard, usable as a directory cache
\* and sharing no identity with an entry of pre_existing.
C25_SampleCandidates ==
    IsSome(lastSample) =>
        /\ Len(Unwrap(lastSample).result) <= Unwrap(lastSample).n
        /\ \A k \in DOMAIN Unwrap(lastSample).result :
             \E c \in {Unwrap(lastSample).result[k]} :
                /\ \E i \in DOMAIN netdir :
                      netdir[i].ed = Unwrap(c.target.ed) /\ netdir[i].rsa = Unwrap(c.target.rsa)
                /\ RelayOf(c.target).rsa \in guardFilter
                /\ RelayOf(c.target).is_flagged_guard
                /\ RelayOf(c.target).is_dir_cache
                /\ \A e \in Unwrap(lastSample).pre_existing :
                      /\ e.ed # c.target.ed
                      /\ e.rsa # c.target.rsa

\* Two candidates have been returned although three were asked for, the
\* third relay sharing its RSA identity with an entry of pre_existing.
C25_Witness ==
    /\ IsSome(lastSample)
    /\ Unwrap(lastSample).n = 3
    /\ Unwrap(lastSample).pre_existing = {RelayIds(None, Some("r3"))}
    /\ Len(Unwrap(lastSample).result) = 2
    /\ guardFilter = {"r1", "r2", "r3", "r4", "r5"}

\* The weight of an entry of the sample, and of the sample, in the directory.
GuardWeight(g) ==
    IF \E i \in DOMAIN netdir : Some(netdir[i].rsa) = g.rsa
    THEN netdir[CHOOSE i \in DOMAIN netdir : Some(netdir[i].rsa) = g.rsa].weight
    ELSE 0

RECURSIVE SampleWeight(_)
SampleWeight(S) ==
    IF S = {} THEN 0
    ELSE LET g == CHOOSE x \in S : TRUE IN GuardWeight(g) + SampleWeight(S \ {g})

\* The weight of the relays flagged as guard and usable as directory cache.
GuardDirWeight ==
    SampleWeight({RelayIds(Some(netdir[i].ed), Some(netdir[i].rsa)) :
                     i \in {j \in DOMAIN netdir :
                                netdir[j].is_flagged_guard /\ netdir[j].is_dir_cache}})

Init == InitGuard /\ InitCertIdle /\ InitVersionsIdle /\ InitChanIdle /\ InitMdIdle /\ InitCertsIdle /\ InitIdIdle /\ InitPathIdle /\ InitRetryIdle /\ InitRatelim /\ InitSampleIdle

SpecGuardMgr == Init /\ [][NextGuardMgr]_vars

SpecVerdict == Init /\ [][NextVerdict]_vars

SpecMonitor == Init /\ [][NextMonitor]_vars

\* The certificate pipeline runs with an idle guard manager.
InitCertificates == InitGuard /\ InitCert /\ InitVersionsIdle /\ InitChanIdle /\ InitMdIdle /\ InitCertsIdle /\ InitIdIdle /\ InitPathIdle /\ InitRetryIdle /\ InitRatelim /\ InitSampleIdle

SpecCert == InitCertificates /\ [][NextCert]_vars

\* The VERSIONS cell on its own.
InitVersionsCell == InitGuard /\ InitCertIdle /\ InitVersions /\ InitChanIdle /\ InitMdIdle /\ InitCertsIdle /\ InitIdIdle /\ InitPathIdle /\ InitRetryIdle /\ InitRatelim /\ InitSampleIdle

SpecVersions == InitVersionsCell /\ [][NextVersions]_vars

\* The channel handshake on its own.
InitChannel == InitGuard /\ InitCertIdle /\ InitVersionsIdle /\ InitChan /\ InitMdIdle /\ InitCertsIdle /\ InitIdIdle /\ InitPathIdle /\ InitRetryIdle /\ InitRatelim /\ InitSampleIdle

SpecChannel == InitChannel /\ [][NextChannel]_vars

\* The microdescriptor reader on its own.
InitMicrodescs ==
    InitGuard /\ InitCertIdle /\ InitVersionsIdle /\ InitChanIdle /\ InitMd /\ InitCertsIdle /\ InitIdIdle /\ InitPathIdle /\ InitRetryIdle /\ InitRatelim /\ InitSampleIdle

SpecMicrodesc == InitMicrodescs /\ [][NextMd]_vars

\* A CERTS cell body on its own.
InitCertsCell == InitGuard /\ InitCertIdle /\ InitVersionsIdle /\ InitChanIdle /\ InitMdIdle /\ InitCerts /\ InitIdIdle /\ InitPathIdle /\ InitRetryIdle /\ InitRatelim /\ InitSampleIdle

SpecCerts == InitCertsCell /\ [][NextCerts]_vars

\* RequestId::next on its own.
InitRequestIds == InitGuard /\ InitCertIdle /\ InitVersionsIdle /\ InitChanIdle /\ InitMdIdle /\ InitCertsIdle /\ InitId /\ InitPathIdle /\ InitRetryIdle /\ InitRatelim /\ InitSampleIdle

SpecRequestId == InitRequestIds /\ [][NextId]_vars

\* The key paths on their own.
InitArtiPath == InitGuard /\ InitCertIdle /\ InitVersionsIdle /\ InitChanIdle /\ InitMdIdle /\ InitCertsIdle /\ InitIdIdle /\ InitPath /\ InitRetryIdle /\ InitRatelim /\ InitSampleIdle

SpecArtiPath == InitArtiPath /\ [][NextPath]_vars

\* The download schedule on its own.
InitDownloadSchedule == InitGuard /\ InitCertIdle /\ InitVersionsIdle /\ InitChanIdle /\ InitMdIdle /\ InitCertsIdle /\ InitIdIdle /\ InitPathIdle /\ InitRetry /\ InitRatelim /\ InitSampleIdle

SpecDownloadSchedule == InitDownloadSchedule /\ [][NextRetry]_vars

\* The rate-limited logger on its own.
InitRateLimiter == InitGuard /\ InitCertIdle /\ InitVersionsIdle /\ InitChanIdle /\ InitMdIdle /\ InitCertsIdle /\ InitIdIdle /\ InitPathIdle /\ InitRetryIdle /\ InitRatelim /\ InitSampleIdle

SpecRateLim == InitRateLimiter /\ [][NextRatelim]_vars

\* The guard sample on its own.
InitGuardSample == InitGuard /\ InitCertIdle /\ InitVersionsIdle /\ InitChanIdle /\ InitMdIdle /\ InitCertsIdle /\ InitIdIdle /\ InitPathIdle /\ InitRetryIdle /\ InitRatelim /\ InitSample

SpecSample == InitGuardSample /\ [][NextSample]_vars

====
